---- MODULE Spec2Model ----
(***************************************************************************)
(* Restaurant reservation backend: working-hours validation, reservation   *)
(* status handling and admission, review gating.                           *)
(*                                                                         *)
(* Each HTTP handler is an operator from (store, request) to a response    *)
(* record [code, msg, <store after>]; the action of the same name applies  *)
(* it to the store.  Time is in seconds since an epoch (day 0, 00:00 UTC). *)
(*                                                                         *)
(* Representation of strings:                                              *)
(*  - a time-of-day value is a record [type, parts]: for a string, parts   *)
(*    is the tuple of its ':'-separated parts, each one digits, empty, a    *)
(*    decimal n.5 or letters; Number() turns a part into a number or NaN;   *)
(*  - a dateTime string is a record [form, d, h, m, s, off] : form "iso"   *)
(*    is <date>T<hh>:<mm>:<ss><off> with off the designator in minutes     *)
(*    ("Z" is 0) or NoOffset; form "glued" is the same text with the sign  *)
(*    of the offset missing; form "garbage" is text that is no ISO date.   *)
(***************************************************************************)
EXTENDS Integers, Sequences, FiniteSets, TLC

VARIABLES restaurants, reservations, reviews, ratingJobs, nextId, nextReviewId, now,
          serverZone,
          inFlight,   \* the addReservation requests between their last read and their write
          creation,   \* who created each reservation, and where
          attended    \* the <<user, restaurant>> of the completions that passed the time gate

vars ==
  <<restaurants, reservations, reviews, ratingJobs, nextId, nextReviewId, now, serverZone,
    inFlight, creation, attended>>

----------------------------------------------------------------------------
(* Bounds *)

MaxReservations == 2
MaxQuotaReservations == 4
MaxGateReservations == 1
MaxReviews == 2
MaxRatingReviews == 3
MaxOwnerReservations == 2
MaxRaceReviews == 1
MaxRaceJobs == 2
MaxFaultReviews == 2
MaxConcurrentReservations == 4
MaxInFlight == 2

----------------------------------------------------------------------------
(* Values *)

Absent == "undefined"

\* JavaScript numbers: a finite number, or NaN
\* (half says the number is val + 0.5)
Num(n) == [finite |-> TRUE, val |-> n, half |-> FALSE]
NumAndHalf(n) == [finite |-> TRUE, val |-> n, half |-> TRUE]
NaN == [finite |-> FALSE, val |-> 0, half |-> FALSE]
Undefined == [undefined |-> TRUE]

\* results that stand for null / an invalid Date (instants are never negative)
NullSeconds == -1
InvalidDate == -1
NoDoc == [id |-> 0]
AbsentDateTime == [form |-> "absent"]
\* the dateTime values "" and 0 of a request body
EmptyDateTime == [form |-> "empty"]
ZeroDateTime == [form |-> "zero"]
NoOffset == -1

Anonymous == "anonymous"
Users == {"u1", "u2", "admin1"}

Role(u) == IF u = "admin1" THEN "admin" ELSE "user"

NonAdmins == {u \in Users : Role(u) # "admin"}

RestaurantIds == {"r1", "r2"}
MissingRestaurantId == "r0"

SecondsPerDay == 86400
SecondsPerHour == 3600
SecondsPerMinute == 60

\* ratings are kept in hundredths of a star
RatingScale == 100
DefaultTimezone == "Asia/Bangkok"

\* UTC offset, in seconds, of the zones used (neither has daylight saving)
ZoneOffset(tz) == IF tz = "Asia/Bangkok" THEN 7 * SecondsPerHour ELSE 0

allowedStatuses == {"booked", "completed", "cancelled"}

\* the parts of a string split at ':' : digits (with a sign if val < 0),
\* nothing, digits followed by ".5", or letters
Digits(n) == [text |-> "digits", val |-> n]
EmptyPart == [text |-> "empty", val |-> 0]
Decimal(n) == [text |-> "decimal", val |-> n]
Letters == [text |-> "letters", val |-> 0]

\* a string with these parts; a value that is a number; null or undefined
TimeString(parts) == [type |-> "string", parts |-> parts]
TimeNumber == [type |-> "number", parts |-> <<>>]
TimeMissing == [type |-> "undefined", parts |-> <<>>]

\* the empty string: ''.split(':') is ['']
EmptyString == TimeString(<<EmptyPart>>)

\* "HH:MM" and "HH:MM:SS"
HHMM(h, m) == TimeString(<<Digits(h), Digits(m)>>)
HHMMSS(h, m, s) == TimeString(<<Digits(h), Digits(m), Digits(s)>>)

\* "<day d>T<h>:<m>:<s><off>", off in minutes ("+07:00" is 420, "Z" is 0)
ISO(d, h, m, s, off) == [form |-> "iso", d |-> d, h |-> h, m |-> m, s |-> s, off |-> off]

----------------------------------------------------------------------------
(* Helpers of the reservations controller *)

\* Number(part) of a part of a split string: '' is 0, letters are NaN
Number(part) ==
  IF part.text = "digits" THEN Num(part.val)
  ELSE IF part.text = "empty" THEN Num(0)
  ELSE IF part.text = "decimal" THEN NumAndHalf(part.val)
  ELSE NaN

\* Number.isFinite(hh) && Number.isFinite(mm) && Number.isFinite(ss)
AllFinite(hh, mm, ss) == hh.finite /\ mm.finite /\ ss.finite

\* x > n, for a number x and an integer n
Above(x, n) == x.val > n \/ (x.val = n /\ x.half)

OutOfRange(hh, mm, ss) ==
  hh.val < 0 \/ Above(hh, 23) \/ mm.val < 0 \/ Above(mm, 59) \/ ss.val < 0 \/ Above(ss, 59)

\* x * unit, for a number x and an even unit
Times(x, unit) == x.val * unit + (IF x.half THEN unit \div 2 ELSE 0)

\* (the seconds part of the strings modelled is never a decimal)
parseHHMMToSeconds(hhmm) ==
  IF hhmm.type # "string" \/ hhmm = EmptyString THEN NullSeconds
  ELSE IF Len(hhmm.parts) < 2 \/ Len(hhmm.parts) > 3 THEN NullSeconds
  ELSE LET hh == Number(hhmm.parts[1])
           mm == Number(hhmm.parts[2])
           ss == IF Len(hhmm.parts) = 3 THEN Number(hhmm.parts[3]) ELSE Num(0)
       IN IF ~AllFinite(hh, mm, ss) THEN NullSeconds
          ELSE IF OutOfRange(hh, mm, ss) THEN NullSeconds
          ELSE Times(hh, SecondsPerHour) + Times(mm, SecondsPerMinute) + ss.val

\* a text that already carries Z or an offset, or that matches neither glued
\* pattern, is returned as it is; a glued offset gets its '+'
normalizeISO(dtStr) ==
  IF dtStr.form = "glued"
  THEN [form |-> "iso", d |-> dtStr.d, h |-> dtStr.h, m |-> dtStr.m,
        s |-> dtStr.s, off |-> dtStr.off]
  ELSE dtStr

\* luxon DateTime.fromISO: the instant (epoch seconds) the text denotes, a
\* text without designator being read in defaultZone; InvalidDate if the
\* text is no ISO date
fromISO(text, defaultZone) ==
  IF text.form # "iso" THEN InvalidDate
  ELSE LET wall == text.d * SecondsPerDay + text.h * SecondsPerHour
                     + text.m * SecondsPerMinute + text.s
       IN IF text.off = NoOffset THEN wall - ZoneOffset(defaultZone)
          ELSE wall - text.off * SecondsPerMinute

\* local.hour * 3600 + local.minute * 60 + local.second of instant ts in zone tz
LocalSecondsOfDay(ts, tz) == (ts + ZoneOffset(tz)) % SecondsPerDay

InWindow_ExclusiveClose(totalSeconds, openSeconds, closeSeconds) ==
  IF openSeconds <= closeSeconds
  THEN totalSeconds >= openSeconds /\ totalSeconds < closeSeconds
  ELSE totalSeconds >= openSeconds \/ totalSeconds <= closeSeconds

InWindow_SameDayOnly(totalSeconds, openSeconds, closeSeconds) ==
  totalSeconds >= openSeconds /\ totalSeconds <= closeSeconds

\* the comparison of the local time with the window, both in seconds
InWindow(totalSeconds, openSeconds, closeSeconds) ==
  IF openSeconds <= closeSeconds
  THEN totalSeconds >= openSeconds /\ totalSeconds <= closeSeconds
  ELSE totalSeconds >= openSeconds \/ totalSeconds <= closeSeconds

isWithinWorkingHours_Unchecked(dateTimeISO, openTime, closeTime, restaurantTz) ==
  dateTimeISO # AbsentDateTime

\* !dateTime: the field is missing, null, "" or 0
Falsy(dateTime) == dateTime.form \in {"absent", "empty", "zero"}

isWithinWorkingHours(dateTimeISO, openTime, closeTime, restaurantTz) ==
  IF Falsy(dateTimeISO) THEN FALSE
  ELSE LET cleaned == normalizeISO(dateTimeISO)
           dt == fromISO(cleaned, serverZone)
       IN IF dt = InvalidDate THEN FALSE
          ELSE LET totalSeconds == LocalSecondsOfDay(dt, restaurantTz)
                   openSeconds == parseHHMMToSeconds(openTime)
                   closeSeconds == parseHHMMToSeconds(closeTime)
               IN IF openSeconds = NullSeconds \/ closeSeconds = NullSeconds THEN FALSE
                  ELSE InWindow(totalSeconds, openSeconds, closeSeconds)

parseIncomingToJSDate(dateTimeISO, restaurantTz) ==
  IF Falsy(dateTimeISO) THEN InvalidDate
  ELSE fromISO(normalizeISO(dateTimeISO), serverZone)

----------------------------------------------------------------------------
(* Store queries (mongoose) *)

\* Model.findById: the document with that id, or NoDoc
findById(coll, id) ==
  IF \E x \in coll : x.id = id THEN CHOOSE x \in coll : x.id = id ELSE NoDoc

\* Reservation.find({ user })
findByUser(user) == {r \in reservations : r.user = user}

\* Restaurant.findById
findRestaurant(rid) == IF rid \in DOMAIN restaurants THEN restaurants[rid] ELSE NoDoc

\* restaurant.timezone || 'Asia/Bangkok'
TimezoneOf(restaurant) ==
  IF restaurant.timezone = Absent THEN DefaultTimezone ELSE restaurant.timezone

\* !value is false: the field is present and not the empty string
Truthy(v) == v # Absent /\ v # ""

ReservationSchemaValid_NoValidators(doc) == TRUE

\* ReservationSchema: status is required and one of the enum values, dateTime
\* is required (the null a cast of "" gives is refused)
ReservationSchemaValid(doc) == doc.status \in allowedStatuses /\ doc.dateTime # InvalidDate

\* the cast to Date of a dateTime the handler did not convert: nothing to set
\* when the body has none, null for "", the epoch for 0
castDate(dateTime) ==
  IF dateTime = EmptyDateTime THEN <<InvalidDate>>
  ELSE IF dateTime = ZeroDateTime THEN <<0>>
  ELSE <<>>

Resp(code, msg, store) == [code |-> code, msg |-> msg, reservations |-> store]

----------------------------------------------------------------------------
(* GET /reservations, GET /restaurants/:restaurantId/reservations,
   GET /reservations/:id *)

\* the answer of a read: data is the set of reservations it returns
ReadResp(code, msg, data) == [code |-> code, msg |-> msg, data |-> data]

\* Reservation.find(payload): a field the payload lacks is no condition
findReservations(payload) ==
  {r \in reservations :
     /\ payload.user = Absent \/ r.user = payload.user
     /\ payload.restaurant = Absent \/ r.restaurant = payload.restaurant}

listPayload_RestaurantOnly(actor, restaurantId) ==
  IF Role(actor) # "admin" /\ restaurantId = Absent
  THEN [user |-> actor, restaurant |-> restaurantId]
  ELSE [user |-> Absent, restaurant |-> restaurantId]

\* the condition of the listing: the actor's own reservations unless the
\* actor is an admin, of the restaurant of the route if it names one
listPayload(actor, restaurantId) ==
  IF Role(actor) # "admin"
  THEN [user |-> actor, restaurant |-> restaurantId]
  ELSE [user |-> Absent, restaurant |-> restaurantId]

getReservations(actor, restaurantId) ==
  ReadResp(200, "list", findReservations(listPayload(actor, restaurantId)))

getReservation(actor, id) ==
  LET reservation == findById(reservations, id) IN
  IF reservation = NoDoc THEN ReadResp(404, "no reservation", {})
  ELSE ReadResp(200, "found", {reservation})

----------------------------------------------------------------------------
(* POST /restaurants/:restaurantId/reservations *)

QuotaExceeded_OffByOne(existed, role) == Cardinality(existed) > 3 /\ role # "admin"

QuotaExceeded_AdminToo(existed, role) == Cardinality(existed) >= 3

QuotaExceeded(existed, role) == Cardinality(existed) >= 3 /\ role # "admin"

NotAuthorizedToCreate_Skipped(actor, user) == FALSE

NotAuthorizedToCreate(actor, user) == Role(actor) # "admin" /\ user # actor

CreatedStatus_FromBody(body) == IF body.status = Absent THEN "booked" ELSE body.status

\* req.body.status = 'booked'
CreatedStatus(body) == "booked"

addReservation_QuotaFirst(actor, restaurantId, body) ==
  IF ~Truthy(body.user) THEN Resp(400, "user is required", reservations)
  ELSE IF NotAuthorizedToCreate(actor, body.user)
       THEN Resp(401, "not authorized", reservations)
  ELSE LET restaurant == findRestaurant(restaurantId) IN
  IF restaurant = NoDoc THEN Resp(404, "no restaurant", reservations)
  ELSE IF Falsy(body.dateTime) THEN Resp(400, "dateTime is required", reservations)
  ELSE LET tz == TimezoneOf(restaurant) IN
  IF QuotaExceeded(findByUser(body.user), Role(actor))
  THEN Resp(400, "already made 3 reservations", reservations)
  ELSE IF ~isWithinWorkingHours(body.dateTime, restaurant.openTime, restaurant.closeTime, tz)
       THEN Resp(400, "outside working hours", reservations)
  ELSE LET jsDate == parseIncomingToJSDate(body.dateTime, tz) IN
  IF jsDate = InvalidDate THEN Resp(400, "Invalid dateTime", reservations)
  ELSE Resp(201, "created",
            reservations \cup {[id |-> nextId, user |-> body.user,
                                restaurant |-> restaurantId, dateTime |-> jsDate,
                                status |-> CreatedStatus(body)]})

addReservation(actor, restaurantId, body) ==
  IF ~Truthy(body.user) THEN Resp(400, "user is required", reservations)
  ELSE IF NotAuthorizedToCreate(actor, body.user)
       THEN Resp(401, "not authorized", reservations)
  ELSE LET restaurant == findRestaurant(restaurantId) IN
  IF restaurant = NoDoc THEN Resp(404, "no restaurant", reservations)
  ELSE IF Falsy(body.dateTime) THEN Resp(400, "dateTime is required", reservations)
  ELSE LET tz == TimezoneOf(restaurant) IN
  IF ~isWithinWorkingHours(body.dateTime, restaurant.openTime, restaurant.closeTime, tz)
  THEN Resp(400, "outside working hours", reservations)
  ELSE IF QuotaExceeded(findByUser(body.user), Role(actor))
       THEN Resp(400, "already made 3 reservations", reservations)
  ELSE LET jsDate == parseIncomingToJSDate(body.dateTime, tz) IN
  IF jsDate = InvalidDate THEN Resp(400, "Invalid dateTime", reservations)
  ELSE Resp(201, "created",
            reservations \cup {[id |-> nextId, user |-> body.user,
                                restaurant |-> restaurantId, dateTime |-> jsDate,
                                status |-> CreatedStatus(body)]})

----------------------------------------------------------------------------
(* PUT /reservations/:id *)

TooEarly_OffByOne(nowMs, targetMs) == nowMs <= targetMs

\* the time gate on 'completed' for a non-admin
TooEarly(nowMs, targetMs) == nowMs < targetMs

ApplyUpdate_KeepTerminal(doc, body) ==
  [id |-> doc.id,
   user |-> IF body.user = Absent THEN doc.user ELSE body.user,
   restaurant |-> IF body.restaurant = Absent THEN doc.restaurant ELSE body.restaurant,
   dateTime |-> IF Len(body.dateTime) = 0 THEN doc.dateTime ELSE body.dateTime[1],
   status |-> IF body.status = Absent \/ doc.status \in {"completed", "cancelled"}
              THEN doc.status ELSE body.status]

\* Reservation.findByIdAndUpdate(id, body, { runValidators: true }): the fields
\* of the body replace those of the document; a value the schema refuses
\* makes the update throw and the store stays as it was.  body.dateTime is
\* <<>> when the request has none and <<instant>> after the conversion
ApplyUpdate(doc, body) ==
  [id |-> doc.id,
   user |-> IF body.user = Absent THEN doc.user ELSE body.user,
   restaurant |-> IF body.restaurant = Absent THEN doc.restaurant ELSE body.restaurant,
   dateTime |-> IF Len(body.dateTime) = 0 THEN doc.dateTime ELSE body.dateTime[1],
   status |-> IF body.status = Absent THEN doc.status ELSE body.status]

findByIdAndUpdate_PartialWrite(doc, body) ==
  LET updated == ApplyUpdate(doc, body)
  IN IF ReservationSchemaValid(updated)
     THEN Resp(200, "updated", (reservations \ {doc}) \cup {updated})
     ELSE Resp(500, "Cannot update reservation",
               (reservations \ {doc}) \cup {[updated EXCEPT !.status = doc.status]})

findByIdAndUpdate(doc, body) ==
  LET updated == ApplyUpdate(doc, body)
  IN IF ReservationSchemaValid(updated)
     THEN Resp(200, "updated", (reservations \ {doc}) \cup {updated})
     ELSE Resp(500, "Cannot update reservation", reservations)

targetMs_Stored(changesDate, jsDate, reservation) == reservation.dateTime

\* the instant the time gate looks at: the converted req.body.dateTime when
\* the request carries one, else the stored one
targetMs(changesDate, jsDate, reservation) ==
  IF changesDate THEN jsDate ELSE reservation.dateTime

NeedsTimeGate_Cancelled(status, role) ==
  status \in {"completed", "cancelled"} /\ role # "admin"

\* req.body.status === 'completed' && req.user.role !== 'admin'
NeedsTimeGate(status, role) == status = "completed" /\ role # "admin"

NotOwnerNorAdmin_Skipped(actor, doc) == FALSE

NotOwnerNorAdmin(actor, doc) == doc.user # actor /\ Role(actor) # "admin"

updateReservation(actor, id, body) ==
  LET reservation == findById(reservations, id) IN
  IF reservation = NoDoc THEN Resp(404, "no reservation", reservations)
  ELSE IF NotOwnerNorAdmin(actor, reservation)
       THEN Resp(401, "not authorized", reservations)
  ELSE LET restaurant == findRestaurant(reservation.restaurant)
           tz == TimezoneOf(restaurant)
           changesDate == ~Falsy(body.dateTime)
           jsDate == parseIncomingToJSDate(body.dateTime, tz)
           \* req.body.dateTime after the conversion block
           converted == [body EXCEPT !.dateTime = IF changesDate THEN <<jsDate>>
                                                  ELSE castDate(body.dateTime)]
       IN
  IF changesDate /\ restaurant = NoDoc THEN Resp(404, "no restaurant", reservations)
  ELSE IF changesDate /\ ~isWithinWorkingHours(body.dateTime, restaurant.openTime,
                                               restaurant.closeTime, tz)
       THEN Resp(400, "outside working hours", reservations)
  ELSE IF changesDate /\ jsDate = InvalidDate THEN Resp(400, "Invalid dateTime", reservations)
  ELSE IF Truthy(body.status) /\ body.status \notin allowedStatuses
       THEN Resp(400, "Invalid status value", reservations)
  ELSE IF /\ Truthy(body.status)
          /\ NeedsTimeGate(body.status, Role(actor))
          /\ TooEarly(now, targetMs(changesDate, jsDate, reservation))
       THEN Resp(400, "Cannot mark as completed before the reservation time", reservations)
  ELSE findByIdAndUpdate(reservation, converted)

----------------------------------------------------------------------------
(* DELETE /reservations/:id *)

deleteReservation_AllOfOwner(actor, id) ==
  LET reservation == findById(reservations, id) IN
  IF reservation = NoDoc THEN Resp(404, "no reservation", reservations)
  ELSE IF NotOwnerNorAdmin(actor, reservation)
       THEN Resp(401, "not authorized", reservations)
  ELSE Resp(200, "deleted", reservations \ findByUser(reservation.user))

deleteReservation(actor, id) ==
  LET reservation == findById(reservations, id) IN
  IF reservation = NoDoc THEN Resp(404, "no reservation", reservations)
  ELSE IF NotOwnerNorAdmin(actor, reservation)
       THEN Resp(401, "not authorized", reservations)
  ELSE Resp(200, "deleted", reservations \ {reservation})

----------------------------------------------------------------------------
(* PATCH /reservations/:id/complete *)

markCompleted_AdminGated(actor, id) ==
  LET reservation == findById(reservations, id) IN
  IF reservation = NoDoc THEN Resp(404, "no reservation", reservations)
  ELSE IF NotOwnerNorAdmin(actor, reservation)
       THEN Resp(401, "not authorized", reservations)
  ELSE IF TooEarly(now, reservation.dateTime)
       THEN Resp(400, "Cannot mark as completed before the reservation time", reservations)
  ELSE Resp(200, "completed",
            (reservations \ {reservation})
              \cup {[reservation EXCEPT !.status = "completed"]})

markCompleted(actor, id) ==
  LET reservation == findById(reservations, id) IN
  IF reservation = NoDoc THEN Resp(404, "no reservation", reservations)
  ELSE IF NotOwnerNorAdmin(actor, reservation)
       THEN Resp(401, "not authorized", reservations)
  ELSE IF TooEarly(now, reservation.dateTime) /\ Role(actor) # "admin"
       THEN Resp(400, "Cannot mark as completed before the reservation time", reservations)
  ELSE Resp(200, "completed",
            (reservations \ {reservation})
              \cup {[reservation EXCEPT !.status = "completed"]})

----------------------------------------------------------------------------
(* POST /reviews *)

RevResp(code, msg, store) == [code |-> code, msg |-> msg, reviews |-> store]

findCompletedReservation_AnyStatus(userId, restaurant) ==
  {r \in reservations : r.user = userId /\ r.restaurant = restaurant}

\* Reservation.findOne({ user, restaurant, status: 'completed' })
findCompletedReservation(userId, restaurant) ==
  {r \in reservations :
     r.user = userId /\ r.restaurant = restaurant /\ r.status = "completed"}

StarsInvalid_Skipped(starsNum) == FALSE

\* !Number.isFinite(starsNum) || starsNum < 0 || starsNum > 5
StarsInvalid(starsNum) == ~starsNum.finite \/ starsNum.val < 0 \/ starsNum.val > 5

createReview(actor, body) ==
  IF actor = Anonymous THEN RevResp(401, "Not authenticated", reviews)
  ELSE IF body.restaurant = Absent THEN RevResp(400, "restaurant is required", reviews)
  ELSE IF body.stars = Undefined THEN RevResp(400, "stars is required", reviews)
  ELSE IF StarsInvalid(body.stars)
       THEN RevResp(400, "stars must be a number between 0 and 5", reviews)
  ELSE IF findRestaurant(body.restaurant) = NoDoc
       THEN RevResp(404, "Restaurant not found", reviews)
  ELSE IF findCompletedReservation(actor, body.restaurant) = {}
       THEN RevResp(400, "no completed reservation", reviews)
  ELSE RevResp(201, "created",
               reviews \cup {[id |-> nextReviewId, user |-> actor,
                              restaurant |-> body.restaurant,
                              stars |-> body.stars.val]})

----------------------------------------------------------------------------
(* PUT /reviews/:id, DELETE /reviews/:id *)

\* ReviewSchema: stars is a number (a cast) between min 0 and max 5
ReviewCastFails(stars) == ~stars.finite
ReviewValidationFails_NoValidators(stars) == FALSE

ReviewValidationFails(stars) == stars.val < 0 \/ stars.val > 5

NotReviewOwnerNorAdmin_Skipped(actor, review) == FALSE

\* the owner-or-admin test of updateReview and deleteReview
NotReviewOwnerNorAdmin(actor, review) == review.user # actor /\ Role(actor) # "admin"

\* updates.stars is set when the body carries stars; the message is not kept in
\* the model
updateReview_WholeBody(actor, id, body) ==
  LET review == findById(reviews, id) IN
  IF review = NoDoc THEN RevResp(404, "Review not found", reviews)
  ELSE IF NotReviewOwnerNorAdmin(actor, review)
       THEN RevResp(403, "Not authorized to update this review", reviews)
  ELSE IF body.stars = Undefined THEN RevResp(200, "updated", reviews)
  ELSE IF ReviewCastFails(body.stars) THEN RevResp(400, "Invalid review ID", reviews)
  ELSE IF ReviewValidationFails(body.stars)
       THEN RevResp(400, "ValidationError", reviews)
  ELSE RevResp(200, "updated",
               (reviews \ {review})
                 \cup {[review EXCEPT !.stars = body.stars.val,
                                      !.restaurant = body.restaurant,
                                      !.user = body.user]})

\* updates = {}; updates.stars = req.body.stars (and the message, which the
\* model leaves out): no other field of the body reaches Review.findByIdAndUpdate
updateReview(actor, id, body) ==
  LET review == findById(reviews, id) IN
  IF review = NoDoc THEN RevResp(404, "Review not found", reviews)
  ELSE IF NotReviewOwnerNorAdmin(actor, review)
       THEN RevResp(403, "Not authorized to update this review", reviews)
  ELSE IF body.stars = Undefined THEN RevResp(200, "updated", reviews)
  ELSE IF ReviewCastFails(body.stars) THEN RevResp(400, "Invalid review ID", reviews)
  ELSE IF ReviewValidationFails(body.stars)
       THEN RevResp(400, "ValidationError", reviews)
  ELSE RevResp(200, "updated",
               (reviews \ {review}) \cup {[review EXCEPT !.stars = body.stars.val]})

deleteReview(actor, id) ==
  LET review == findById(reviews, id) IN
  IF review = NoDoc THEN RevResp(404, "Review not found", reviews)
  ELSE IF NotReviewOwnerNorAdmin(actor, review)
       THEN RevResp(403, "Not authorized to delete this review", reviews)
  ELSE RevResp(204, "deleted", reviews \ {review})

----------------------------------------------------------------------------
(* POST /restaurants, PUT /restaurants/:id (admin routes) *)

CatResp(code, msg, store) == [code |-> code, msg |-> msg, restaurants |-> store]

\* RestaurantSchema: openTime and closeTime match /^([01]\d|2[0-3]):([0-5]\d)$/
MatchesHHMM(t) ==
  /\ t.type = "string"
  /\ Len(t.parts) = 2
  /\ \A i \in 1..2 : t.parts[i].text = "digits"
  /\ t.parts[1].val \in 0..23
  /\ t.parts[2].val \in 0..59

\* req.body[f] === undefined || req.body[f] === ''
MissingField(t) == t = TimeMissing \/ t = EmptyString

\* a field of the body that is a number: <<>> when the body does not carry it
FieldOr(field, default) == IF field = <<>> THEN default ELSE field[1]

\* Restaurant.create(req.body): the schema defaults fill what the body leaves out
createRestaurant(actor, id, body) ==
  IF Role(actor) # "admin" THEN CatResp(403, "not authorized", restaurants)
  ELSE IF MissingField(body.openTime) \/ MissingField(body.closeTime)
       THEN CatResp(400, "Missing required fields", restaurants)
  ELSE IF ~MatchesHHMM(body.openTime) \/ ~MatchesHHMM(body.closeTime)
       THEN CatResp(400, "ValidationError", restaurants)
  ELSE CatResp(201, "created",
               [r \in DOMAIN restaurants \cup {id} |->
                  IF r = id
                  THEN [openTime |-> body.openTime, closeTime |-> body.closeTime,
                        timezone |-> Absent,
                        averageRating |-> FieldOr(body.averageRating, 0),
                        reviewCount |-> FieldOr(body.reviewCount, 0)]
                  ELSE restaurants[r]])

\* Restaurant.findByIdAndUpdate(req.params.id, req.body, { runValidators: true })
updateRestaurant(actor, id, body) ==
  IF Role(actor) # "admin" THEN CatResp(403, "not authorized", restaurants)
  ELSE IF (body.openTime # TimeMissing /\ ~MatchesHHMM(body.openTime))
            \/ (body.closeTime # TimeMissing /\ ~MatchesHHMM(body.closeTime))
       THEN CatResp(400, "ValidationError", restaurants)
  ELSE IF id \notin DOMAIN restaurants THEN CatResp(404, "No restaurant", restaurants)
  ELSE CatResp(200, "updated",
               [restaurants EXCEPT ![id] =
                  [openTime |-> IF body.openTime = TimeMissing THEN @.openTime
                                ELSE body.openTime,
                   closeTime |-> IF body.closeTime = TimeMissing THEN @.closeTime
                                 ELSE body.closeTime,
                   timezone |-> @.timezone,
                   averageRating |-> FieldOr(body.averageRating, @.averageRating),
                   reviewCount |-> FieldOr(body.reviewCount, @.reviewCount)]])

----------------------------------------------------------------------------
(* Review model: the rating kept on the restaurant *)

RECURSIVE SumStars(_)
SumStars(S) ==
  IF S = {} THEN 0
  ELSE LET v == CHOOSE x \in S : TRUE IN v.stars + SumStars(S \ {v})

aggregate_Unmatched(restaurantId) ==
  LET matched == reviews
  IN IF matched = {} THEN <<>>
     ELSE <<[sum |-> SumStars(matched), count |-> Cardinality(matched)]>>

\* the $match / $group pipeline: no group when the restaurant has no review,
\* else one group <<sum of stars, count>> (avgRating is their quotient)
aggregate(restaurantId) ==
  LET matched == {v \in reviews : v.restaurant = restaurantId}
  IN IF matched = {} THEN <<>>
     ELSE <<[sum |-> SumStars(matched), count |-> Cardinality(matched)]>>

ToFixed2_Truncated(sum, count) == (RatingScale * sum) \div count

\* parseFloat(avgRating.toFixed(2)), in hundredths
ToFixed2(sum, count) == (2 * RatingScale * sum + count) \div (2 * count)

ratingUpdate(stats) ==
  IF Len(stats) > 0
  THEN [averageRating |-> ToFixed2(stats[1].sum, stats[1].count),
        reviewCount |-> stats[1].count]
  ELSE [averageRating |-> 0, reviewCount |-> 0]

\* the calls of updateRestaurantRating in flight are told apart by a number
FreshJobId ==
  CHOOSE n \in 1..(Cardinality(ratingJobs) + 1) : \A j \in ratingJobs : j.id # n

\* a call of updateRestaurantRating, about to aggregate; no call without a
\* restaurant id
updateRestaurantRating(restaurantId) ==
  IF restaurantId = Absent THEN {}
  ELSE {[id |-> FreshJobId, restaurant |-> restaurantId, pc |-> "aggregate",
         stats |-> <<>>]}

\* the post hooks start the call and do not wait for it
postSave(doc) == updateRestaurantRating(doc.restaurant)

postFindOneAndUpdate_NoRecompute(doc) == {}

postFindOneAndUpdate(doc) ==
  IF doc # NoDoc THEN updateRestaurantRating(doc.restaurant) ELSE {}

postFindOneAndDelete_NoRecompute(doc) == {}

postFindOneAndDelete(doc) ==
  IF doc # NoDoc THEN updateRestaurantRating(doc.restaurant) ELSE {}

----------------------------------------------------------------------------
(* Actions: one per request *)

AddReservation(actor, restaurantId, body) ==
  LET res == addReservation(actor, restaurantId, body) IN
  /\ reservations' = res.reservations
  /\ nextId' = IF res.code = 201 THEN nextId + 1 ELSE nextId
  /\ UNCHANGED <<restaurants, reviews, ratingJobs, nextReviewId, now, serverZone,
               inFlight, creation, attended>>

UpdateReservation(actor, id, body) ==
  /\ reservations' = updateReservation(actor, id, body).reservations
  /\ UNCHANGED <<restaurants, reviews, ratingJobs, nextId, nextReviewId, now, serverZone,
               inFlight, creation, attended>>

DeleteReservation(actor, id) ==
  /\ reservations' = deleteReservation(actor, id).reservations
  /\ UNCHANGED <<restaurants, reviews, ratingJobs, nextId, nextReviewId, now, serverZone,
               inFlight, creation, attended>>

MarkCompleted(actor, id) ==
  /\ reservations' = markCompleted(actor, id).reservations
  /\ UNCHANGED <<restaurants, reviews, ratingJobs, nextId, nextReviewId, now, serverZone,
               inFlight, creation, attended>>

\* the reads change nothing
GetReservations(actor, restaurantId) ==
  /\ getReservations(actor, restaurantId).code = 200
  /\ UNCHANGED vars

GetReservation(actor, id) ==
  /\ getReservation(actor, id).code \in {200, 404}
  /\ UNCHANGED vars

\* Review.create runs the post('save') hook, which starts updateRestaurantRating
\* for the restaurant of the new review and does not wait for it
CreateReview(actor, body) ==
  LET res == createReview(actor, body) IN
  /\ reviews' = res.reviews
  /\ ratingJobs' = IF res.code = 201
                   THEN ratingJobs \cup postSave(findById(res.reviews, nextReviewId))
                   ELSE ratingJobs
  /\ nextReviewId' = IF res.code = 201 THEN nextReviewId + 1 ELSE nextReviewId
  /\ UNCHANGED <<restaurants, reservations, nextId, now, serverZone,
               inFlight, creation, attended>>

\* Review.findByIdAndUpdate runs the post('findOneAndUpdate') hook with the
\* updated review; a rejected request and a failed validation run none
UpdateReview(actor, id, body) ==
  LET res == updateReview(actor, id, body) IN
  /\ reviews' = res.reviews
  /\ ratingJobs' = IF res.code = 200
                   THEN ratingJobs \cup postFindOneAndUpdate(findById(res.reviews, id))
                   ELSE ratingJobs
  /\ UNCHANGED <<restaurants, reservations, nextId, nextReviewId, now, serverZone,
               inFlight, creation, attended>>

\* Review.findByIdAndDelete runs the post('findOneAndDelete') hook with the
\* deleted review
DeleteReview(actor, id) ==
  LET res == deleteReview(actor, id) IN
  /\ reviews' = res.reviews
  /\ ratingJobs' = IF res.code = 204
                   THEN ratingJobs \cup postFindOneAndDelete(findById(reviews, id))
                   ELSE ratingJobs
  /\ UNCHANGED <<restaurants, reservations, nextId, nextReviewId, now, serverZone,
               inFlight, creation, attended>>

CreateRestaurant(actor, id, body) ==
  /\ restaurants' = createRestaurant(actor, id, body).restaurants
  /\ UNCHANGED <<reservations, reviews, ratingJobs, nextId, nextReviewId, now, serverZone,
               inFlight, creation, attended>>

UpdateRestaurant(actor, id, body) ==
  /\ restaurants' = updateRestaurant(actor, id, body).restaurants
  /\ UNCHANGED <<reservations, reviews, ratingJobs, nextId, nextReviewId, now, serverZone,
               inFlight, creation, attended>>

\* updateRestaurantRating up to its first await: the aggregation over the
\* reviews of the restaurant
UpdateRestaurantRatingAggregate(job) ==
  /\ job \in ratingJobs /\ job.pc = "aggregate"
  /\ ratingJobs' = (ratingJobs \ {job})
                     \cup {[job EXCEPT !.pc = "update", !.stats = aggregate(job.restaurant)]}
  /\ UNCHANGED <<restaurants, reservations, reviews, nextId, nextReviewId, now, serverZone,
               inFlight, creation, attended>>

\* the rest of updateRestaurantRating: Restaurant.findByIdAndUpdate with the
\* figures of the aggregation
UpdateRestaurantRatingWrite(job) ==
  /\ job \in ratingJobs /\ job.pc = "update"
  /\ restaurants' =
       IF job.restaurant \in DOMAIN restaurants
       THEN [restaurants EXCEPT ![job.restaurant] =
               [@ EXCEPT !.averageRating = ratingUpdate(job.stats).averageRating,
                         !.reviewCount = ratingUpdate(job.stats).reviewCount]]
       ELSE restaurants
  /\ ratingJobs' = ratingJobs \ {job}
  /\ UNCHANGED <<reservations, reviews, nextId, nextReviewId, now, serverZone,
               inFlight, creation, attended>>

recomputationFailed_ZeroFigures(job) ==
  [restaurants EXCEPT ![job.restaurant] = [@ EXCEPT !.averageRating = 0, !.reviewCount = 0]]

\* what a failed call of updateRestaurantRating leaves on the restaurants: the
\* catch blocks log the error and write nothing
recomputationFailed(job) == restaurants

\* the aggregation query rejects: the outer catch logs the error
UpdateRestaurantRatingAggregateFails(job) ==
  /\ job \in ratingJobs /\ job.pc = "aggregate"
  /\ ratingJobs' = (ratingJobs \ {job}) \cup {[job EXCEPT !.pc = "failed"]}
  /\ restaurants' = recomputationFailed(job)
  /\ UNCHANGED <<reservations, reviews, nextId, nextReviewId, now, serverZone,
               inFlight, creation, attended>>

\* Restaurant.findByIdAndUpdate rejects: its .catch logs the error
UpdateRestaurantRatingWriteFails(job) ==
  /\ job \in ratingJobs /\ job.pc = "update"
  /\ ratingJobs' = (ratingJobs \ {job}) \cup {[job EXCEPT !.pc = "failed"]}
  /\ restaurants' = recomputationFailed(job)
  /\ UNCHANGED <<reservations, reviews, nextId, nextReviewId, now, serverZone,
               inFlight, creation, attended>>

\* the failed call returns
UpdateRestaurantRatingReturns(job) ==
  /\ job \in ratingJobs /\ job.pc = "failed"
  /\ ratingJobs' = ratingJobs \ {job}
  /\ UNCHANGED <<restaurants, reservations, reviews, nextId, nextReviewId, now, serverZone,
               inFlight, creation, attended>>

\* the clock (Date.now()) moves on to a later instant of Clock
Tick(Clock) ==
  /\ \E t \in Clock : t > now /\ now' = t
  /\ UNCHANGED <<restaurants, reservations, reviews, ratingJobs, nextId, nextReviewId,
               serverZone,
               inFlight, creation, attended>>

----------------------------------------------------------------------------
(* Inputs *)

\* one same-day and one overnight window; the schema has no timezone field
SeedRestaurants ==
  [r \in RestaurantIds |->
     IF r = "r1"
     THEN [openTime |-> HHMM(10, 0), closeTime |-> HHMM(22, 0), timezone |-> Absent,
           averageRating |-> 0, reviewCount |-> 0]
     ELSE [openTime |-> HHMM(20, 0), closeTime |-> HHMM(3, 0), timezone |-> Absent,
           averageRating |-> 0, reviewCount |-> 0]]

BangkokOffset == 420

\* 22:00 of day 1 (inside both windows) and 02:00 of day 2 (inside the
\* overnight window only), Bangkok time
T22 == ISO(1, 22, 0, 0, BangkokOffset)
T02 == ISO(2, 2, 0, 0, BangkokOffset)

DateTimeInputs == {T22, T02}

Instant(text) == fromISO(text, "UTC")

\* the clock readings: before every input, at T22 exactly, after every input
Clock == {Instant(T22) - 1, Instant(T22), Instant(T02) + 1}

Owners == {"u1", "u2"}

AddBodies ==
  [user : Owners \cup {Absent},
   dateTime : DateTimeInputs \cup {AbsentDateTime},
   status : {Absent, "completed"}]

UpdateBodies ==
  [user : {Absent},
   restaurant : {Absent},
   dateTime : DateTimeInputs \cup {AbsentDateTime},
   status : allowedStatuses \cup {Absent, "", "pending"}]

\* a body that carries a status and nothing else
StatusOnly(status) ==
  [user |-> Absent, restaurant |-> Absent, dateTime |-> AbsentDateTime, status |-> status]

\* the restaurant of a listing route: none, an existing one, a missing one
ListScopes == RestaurantIds \cup {Absent, MissingRestaurantId}

----------------------------------------------------------------------------
(* Spec: the reservation life cycle *)

\* the updates sent: a new dateTime, a cancellation, a completion, or both
LifeCycleUpdateBodies == {b \in UpdateBodies : b.status \in {Absent, "cancelled", "completed"}}

Init ==
  /\ restaurants = SeedRestaurants
  /\ reservations = {}
  /\ reviews = {}
  /\ ratingJobs = {}
  /\ nextId = 1
  /\ nextReviewId = 1
  /\ now = Instant(T22) - 1
  /\ serverZone = "UTC"
  /\ inFlight = {}
  /\ creation = {}
  /\ attended = {}

Next ==
  \/ \E a \in Users, r \in RestaurantIds \cup {MissingRestaurantId}, b \in AddBodies :
       nextId <= MaxReservations /\ AddReservation(a, r, b)
  \/ \E a \in Users, id \in 1..nextId, b \in LifeCycleUpdateBodies :
       UpdateReservation(a, id, b)
  \/ \E a \in Users, id \in 1..nextId : DeleteReservation(a, id)
  \/ \E a \in Users, id \in 1..nextId : MarkCompleted(a, id)
  \/ \E a \in Users, r \in ListScopes : GetReservations(a, r)
  \/ \E a \in Users, id \in 1..nextId : GetReservation(a, id)
  \/ Tick(Clock)

Spec == Init /\ [][Next]_vars

----------------------------------------------------------------------------
(* SpecGate: reviews behind completed reservations *)

GateAddBodies == [user : Owners, dateTime : {T22}, status : {Absent}]

\* each way of being refused once, and the accepted bodies for every restaurant
GateReviewBodies ==
  {[restaurant |-> r, stars |-> Num(4)] : r \in RestaurantIds \cup {Absent, MissingRestaurantId}}
    \cup {[restaurant |-> "r1", stars |-> x] : x \in {Num(6), NaN, Undefined}}

\* the clock stands at the instant of the reservations, so that their owners
\* can complete them
InitGate ==
  /\ restaurants = SeedRestaurants
  /\ reservations = {}
  /\ reviews = {}
  /\ ratingJobs = {}
  /\ nextId = 1
  /\ nextReviewId = 1
  /\ now = Instant(T22)
  /\ serverZone = "UTC"
  /\ inFlight = {}
  /\ creation = {}
  /\ attended = {}

NextGate ==
  \/ \E a \in Users, r \in RestaurantIds, b \in GateAddBodies :
       nextId <= MaxGateReservations /\ AddReservation(a, r, b)
  \/ \E a \in Users, id \in 1..nextId, st \in allowedStatuses :
       UpdateReservation(a, id, StatusOnly(st))
  \/ \E a \in Users, id \in 1..nextId : DeleteReservation(a, id)
  \/ \E a \in Users, id \in 1..nextId : MarkCompleted(a, id)
  \/ \E a \in Users \cup {Anonymous}, b \in GateReviewBodies :
       nextReviewId <= MaxReviews /\ CreateReview(a, b)
  \/ \E job \in ratingJobs : UpdateRestaurantRatingAggregate(job)
  \/ \E job \in ratingJobs : UpdateRestaurantRatingWrite(job)

SpecGate == InitGate /\ [][NextGate]_vars

----------------------------------------------------------------------------
(* SpecQuota: the per-user quota of addReservation *)

\* (the reservations are made for one owner, by that owner, by the other user
\* and by the admin)
QuotaAddBodies == [user : {"u1"}, dateTime : {T22}, status : {Absent, "completed"}]

NextQuota ==
  \/ \E a \in Users, r \in RestaurantIds, b \in QuotaAddBodies :
       nextId <= MaxQuotaReservations /\ AddReservation(a, r, b)
  \/ \E a \in Users, id \in 1..nextId : DeleteReservation(a, id)
  \/ \E a \in Users, id \in 1..nextId : MarkCompleted(a, id)

SpecQuota == Init /\ [][NextQuota]_vars

----------------------------------------------------------------------------
(* SpecHours: the working-hours check over windows and local times *)

\* window endpoints a restaurant can store: the schema asks for "HH:MM"
TimeOfDayInputs ==
  {HHMM(0, 0), HHMM(3, 0), HHMM(10, 0), HHMM(20, 0), HHMM(22, 0), HHMM(23, 59)}

\* endpoints "HH:MM:SS", which isWithinWorkingHours reads as well
PreciseTimeOfDayInputs == {HHMMSS(3, 0, 0), HHMMSS(10, 0, 30), HHMMSS(23, 59, 59)}

\* values that are no "HH:MM" or "HH:MM:SS": null, a number, "", "xx",
\* "xx:00", "10", "10:00:00:00", "24:00", "10:60", "10:00:60", "-1:00",
\* "10:", ":30", "10::30", "10.5:00" and "10:30.5"
MalformedTimeOfDayInputs ==
  {TimeMissing, TimeNumber, EmptyString,
   TimeString(<<Letters>>), TimeString(<<Letters, Digits(0)>>),
   TimeString(<<Digits(10)>>),
   TimeString(<<Digits(10), Digits(0), Digits(0), Digits(0)>>),
   HHMM(24, 0), HHMM(10, 60), HHMMSS(10, 0, 60), HHMM(-1, 0),
   TimeString(<<Digits(10), EmptyPart>>), TimeString(<<EmptyPart, Digits(30)>>),
   TimeString(<<Digits(10), EmptyPart, Digits(30)>>),
   TimeString(<<Decimal(10), Digits(0)>>), TimeString(<<Digits(10), Decimal(30)>>)}

\* wall-clock times <<h, m, s>>: each endpoint, the second before and after
\* it, and times well inside and outside the windows
WallTimes ==
  {<<0, 0, 0>>, <<0, 0, 1>>, <<2, 0, 0>>, <<2, 59, 59>>, <<3, 0, 0>>, <<3, 0, 1>>,
   <<9, 59, 59>>, <<10, 0, 0>>, <<10, 0, 1>>, <<10, 0, 29>>, <<10, 0, 30>>,
   <<10, 0, 31>>, <<15, 0, 0>>, <<19, 59, 59>>, <<20, 0, 0>>, <<20, 0, 1>>,
   <<21, 59, 59>>, <<22, 0, 0>>, <<22, 0, 1>>, <<23, 58, 59>>, <<23, 59, 0>>,
   <<23, 59, 1>>, <<23, 59, 58>>, <<23, 59, 59>>}

\* the texts: every wall time on day 1 with "+07:00", with "Z" and without
\* designator, and 02:00 of day 2
HoursInputs ==
  {ISO(1, t[1], t[2], t[3], off) : t \in WallTimes, off \in {BangkokOffset, 0, NoOffset}}
    \cup {T02}

ServerZones == {"UTC", "Asia/Bangkok"}

HoursRestaurant == "r1"

InitHours ==
  /\ \E o \in TimeOfDayInputs, c \in TimeOfDayInputs :
       restaurants = [r \in {HoursRestaurant} |->
                        [openTime |-> o, closeTime |-> c, timezone |-> Absent,
                         averageRating |-> 0, reviewCount |-> 0]]
  /\ reservations = {}
  /\ reviews = {}
  /\ ratingJobs = {}
  /\ nextId = 1
  /\ nextReviewId = 1
  /\ now = Instant(T22) - 1
  /\ serverZone \in ServerZones
  /\ inFlight = {}
  /\ creation = {}
  /\ attended = {}

HoursBody(text) == [user |-> "u1", dateTime |-> text, status |-> Absent]

NextHours ==
  \/ \E t \in HoursInputs :
       /\ nextId <= MaxReservations
       /\ reservations = {}
       /\ AddReservation("u1", HoursRestaurant, HoursBody(t))
  \/ \E id \in 1..nextId : DeleteReservation("u1", id)

SpecHours == InitHours /\ [][NextHours]_vars

----------------------------------------------------------------------------
(* SpecOwner: the reservations of one user, changed by that user, by another
   user and by an admin *)

OwnerAddBodies == [user : {"u1"}, dateTime : DateTimeInputs, status : {Absent}]

NextOwner ==
  \/ \E r \in RestaurantIds, b \in OwnerAddBodies :
       nextId <= MaxOwnerReservations /\ AddReservation("u1", r, b)
  \/ \E a \in Users, id \in 1..nextId, b \in UpdateBodies : UpdateReservation(a, id, b)
  \/ \E a \in Users, id \in 1..nextId : DeleteReservation(a, id)
  \/ \E a \in Users, id \in 1..nextId : MarkCompleted(a, id)
  \/ Tick(Clock)

SpecOwner == Init /\ [][NextOwner]_vars

----------------------------------------------------------------------------
(* SpecRating: review mutations, each recomputation of a rating finishing
   before the next review mutation *)

RatingStars == {Num(3), Num(4), Num(5)}

\* every star value for r1, one for r2, and a value out of range
RatingReviewBodies ==
  {[restaurant |-> "r1", stars |-> x] : x \in RatingStars \cup {Num(6)}}
    \cup {[restaurant |-> "r2", stars |-> Num(4)]}

RatingUpdateBodies == [stars : RatingStars \cup {Undefined, NaN, Num(6)}]

\* u1 has been to r1 and u2 to r2: both reservations are completed
CompletedVisits ==
  {[id |-> 1, user |-> "u1", restaurant |-> "r1", dateTime |-> Instant(T22),
    status |-> "completed"],
   [id |-> 2, user |-> "u2", restaurant |-> "r2", dateTime |-> Instant(T22),
    status |-> "completed"]}

InitRating ==
  /\ restaurants = SeedRestaurants
  /\ reservations = CompletedVisits
  /\ reviews = {}
  /\ ratingJobs = {}
  /\ nextId = 3
  /\ nextReviewId = 1
  /\ now = Instant(T22)
  /\ serverZone = "UTC"
  /\ inFlight = {}
  /\ creation = {}
  /\ attended = {}

\* no call of updateRestaurantRating is in flight
NoRecomputation == ratingJobs = {}

NextRating ==
  \/ \E a \in Owners, b \in RatingReviewBodies :
       nextReviewId <= MaxRatingReviews /\ NoRecomputation /\ CreateReview(a, b)
  \/ \E a \in Users, id \in 1..nextReviewId, b \in RatingUpdateBodies :
       NoRecomputation /\ UpdateReview(a, id, b)
  \/ \E a \in Users, id \in 1..nextReviewId :
       NoRecomputation /\ DeleteReview(a, id)
  \/ \E job \in ratingJobs : UpdateRestaurantRatingAggregate(job)
  \/ \E job \in ratingJobs : UpdateRestaurantRatingWrite(job)

SpecRating == InitRating /\ [][NextRating]_vars

----------------------------------------------------------------------------
(* SpecRace: review mutations and recomputations in every interleaving; a
   recomputation that has started goes on to its end *)

RaceReviewBodies ==
  {[restaurant |-> "r1", stars |-> x] : x \in {Num(3), Num(5)}}
    \cup {[restaurant |-> "r2", stars |-> Num(4)]}

RaceUpdateBodies ==
  {[stars |-> Num(4), restaurant |-> "r2", user |-> "u2"],
   [stars |-> Undefined, restaurant |-> Absent, user |-> Absent]}

\* at most MaxRaceJobs recomputations are in flight
MayStartRecomputation == Cardinality(ratingJobs) < MaxRaceJobs

NextRace ==
  \/ \E a \in Owners, b \in RaceReviewBodies :
       nextReviewId <= MaxRaceReviews /\ MayStartRecomputation /\ CreateReview(a, b)
  \/ \E a \in Users, id \in 1..nextReviewId, b \in RaceUpdateBodies :
       MayStartRecomputation /\ UpdateReview(a, id, b)
  \/ \E a \in Users, id \in 1..nextReviewId :
       MayStartRecomputation /\ DeleteReview(a, id)
  \/ \E job \in ratingJobs : UpdateRestaurantRatingAggregate(job)
  \/ \E job \in ratingJobs : UpdateRestaurantRatingWrite(job)

\* the awaited aggregation and the awaited write of every call return
RaceFairness ==
  \A i \in 1..MaxRaceJobs :
    /\ WF_vars(\E job \in ratingJobs : job.id = i /\ UpdateRestaurantRatingAggregate(job))
    /\ WF_vars(\E job \in ratingJobs : job.id = i /\ UpdateRestaurantRatingWrite(job))

SpecRace == InitRating /\ [][NextRace]_vars /\ RaceFairness

----------------------------------------------------------------------------
(* SpecStale: the review mutations of SpecRating, made after a race of two
   recomputations has left r1 with the figures of an earlier review *)

\* u1 reviewed r1 with 5 stars and then changed the review to 4 stars
RacedReviews == {[id |-> 1, user |-> "u1", restaurant |-> "r1", stars |-> 4]}

\* the recomputation of the create aggregated before the update and wrote
\* after the recomputation of the update
InitStale ==
  /\ restaurants = [SeedRestaurants EXCEPT !["r1"].averageRating = 5 * RatingScale,
                                           !["r1"].reviewCount = 1]
  /\ reservations = CompletedVisits
  /\ reviews = RacedReviews
  /\ ratingJobs = {}
  /\ nextId = 3
  /\ nextReviewId = 2
  /\ now = Instant(T22)
  /\ serverZone = "UTC"
  /\ inFlight = {}
  /\ creation = {}
  /\ attended = {}

SpecStale == InitStale /\ [][NextRating]_vars

----------------------------------------------------------------------------
(* SpecCatalog: an admin (and a user who is none) creating and updating
   restaurants *)

NewRestaurantIds == {"r3"}

CatalogTimes == {TimeMissing, HHMM(10, 0), HHMM(22, 0), TimeString(<<Letters>>)}

\* 4.80 and 7: figures that no review stands behind
CatalogBodies ==
  [openTime : CatalogTimes, closeTime : CatalogTimes,
   averageRating : {<<>>, <<480>>}, reviewCount : {<<>>, <<7>>}]

NextCatalog ==
  \/ \E a \in {"u1", "admin1"}, id \in NewRestaurantIds, b \in CatalogBodies :
       id \notin DOMAIN restaurants /\ CreateRestaurant(a, id, b)
  \/ \E a \in {"u1", "admin1"}, id \in {"r1", MissingRestaurantId} \cup NewRestaurantIds,
          b \in CatalogBodies :
       UpdateRestaurant(a, id, b)

SpecCatalog == Init /\ [][NextCatalog]_vars

----------------------------------------------------------------------------
(* SpecFaulty: review mutations one recomputation at a time, where the
   aggregation query or the write of a recomputation may fail *)

NextFaulty ==
  \/ \E a \in Owners, b \in RaceReviewBodies :
       nextReviewId <= MaxFaultReviews /\ NoRecomputation /\ CreateReview(a, b)
  \/ \E a \in Users, id \in 1..nextReviewId, b \in RaceUpdateBodies :
       NoRecomputation /\ UpdateReview(a, id, b)
  \/ \E a \in Users, id \in 1..nextReviewId :
       NoRecomputation /\ DeleteReview(a, id)
  \/ \E job \in ratingJobs : UpdateRestaurantRatingAggregate(job)
  \/ \E job \in ratingJobs : UpdateRestaurantRatingWrite(job)
  \/ \E job \in ratingJobs : UpdateRestaurantRatingAggregateFails(job)
  \/ \E job \in ratingJobs : UpdateRestaurantRatingWriteFails(job)
  \/ \E job \in ratingJobs : UpdateRestaurantRatingReturns(job)

SpecFaulty == InitRating /\ [][NextFaulty]_vars

----------------------------------------------------------------------------
(* Properties *)

QuotaMessage == "already made 3 reservations"
EarlyMessage == "Cannot mark as completed before the reservation time"

IsAdmin(a) == Role(a) = "admin"

\* the store with the status of reservation r replaced
WithStatus(r, status) == (reservations \ {r}) \cup {[r EXCEPT !.status = status]}

AllRestaurantIds == RestaurantIds \cup {MissingRestaurantId}

\* C1: the owner of a reservation, not an admin, who asks for status completed
\* (updateReservation with only status 'completed', or markCompleted) is
\* rejected while now is before the scheduled instant and accepted from that
\* instant on; an admin is accepted at any time.
C1_CompletedGate ==
  \A r \in reservations, a \in Users :
    (a = r.user \/ IsAdmin(a)) =>
      LET upd == updateReservation(a, r.id, StatusOnly("completed"))
          mrk == markCompleted(a, r.id)
      IN IF ~IsAdmin(a) /\ now < r.dateTime
         THEN /\ upd.code = 400 /\ upd.msg = EarlyMessage
              /\ upd.reservations = reservations
              /\ mrk.code = 400 /\ mrk.msg = EarlyMessage
              /\ mrk.reservations = reservations
         ELSE /\ upd.code = 200 /\ upd.reservations = WithStatus(r, "completed")
              /\ mrk.code = 200 /\ mrk.reservations = WithStatus(r, "completed")

\* a reservation of a non-admin completed with the clock exactly at its
\* instant, next to one that is still ahead: its owner is refused, the admin not
C1_Witness ==
  \E r1 \in reservations, r2 \in reservations :
    /\ ~IsAdmin(r1.user) /\ r1.dateTime = now /\ r1.status = "completed"
    /\ ~IsAdmin(r2.user) /\ now < r2.dateTime /\ r2.status = "booked"
    /\ markCompleted(r2.user, r2.id).code = 400
    /\ updateReservation(r2.user, r2.id, StatusOnly("completed")).code = 400
    /\ markCompleted("admin1", r2.id).code = 200

Attended(a, rid) ==
  \E r \in reservations : r.user = a /\ r.restaurant = rid /\ r.status = "completed"

\* C2: createReview by an authenticated user for an existing restaurant with
\* stars in 0..5 creates a review exactly when that user has a reservation at
\* that restaurant with status completed, however many reviews the user
\* already has there; a rejected request leaves the reviews as they were.
C2_ReviewGate ==
  \A a \in Users, rid \in DOMAIN restaurants, st \in 0..5 :
    LET res == createReview(a, [restaurant |-> rid, stars |-> Num(st)])
    IN IF Attended(a, rid)
       THEN /\ res.code = 201
            /\ res.reviews = reviews \cup {[id |-> nextReviewId, user |-> a,
                                            restaurant |-> rid, stars |-> st]}
            /\ Cardinality(res.reviews) = Cardinality(reviews) + 1
       ELSE /\ res.code = 400
            /\ res.reviews = reviews

\* a user with a completed reservation at one restaurant has reviewed it twice
\* and is refused at the other restaurant
C2_Witness ==
  \E v1 \in reviews, v2 \in reviews, rid \in DOMAIN restaurants :
    /\ v1.id # v2.id /\ v1.user = v2.user /\ v1.restaurant = v2.restaurant
    /\ Attended(v1.user, v1.restaurant)
    /\ ~Attended(v1.user, rid)
    /\ createReview(v1.user, [restaurant |-> rid, stars |-> Num(4)]).code = 400

OwnedBy(u) == {r \in reservations : r.user = u}

\* C3: addReservation by a non-admin is rejected and creates nothing whenever
\* the owner named in the request already has 3 or more reservations, counted
\* over all restaurants; when nothing else is wrong with the request the
\* rejection is the quota one.
C3_QuotaRejects ==
  \A a \in NonAdmins, rid \in AllRestaurantIds, b \in AddBodies :
    (b.user # Absent /\ Cardinality(OwnedBy(b.user)) >= 3) =>
      LET res == addReservation(a, rid, b)
      IN /\ res.code \in {400, 401, 404}
         /\ res.reservations = reservations
         /\ (/\ b.user = a /\ rid \in DOMAIN restaurants
             /\ b.dateTime # AbsentDateTime
             /\ isWithinWorkingHours(b.dateTime, restaurants[rid].openTime,
                                     restaurants[rid].closeTime, DefaultTimezone))
            => (res.code = 400 /\ res.msg = QuotaMessage)

\* a non-admin with exactly 3 reservations, fewer than 3 at each restaurant,
\* whose next request is refused for the quota
C3_Witness ==
  \E u \in NonAdmins :
    /\ Cardinality(OwnedBy(u)) = 3
    /\ \A rid \in RestaurantIds :
         Cardinality({r \in OwnedBy(u) : r.restaurant = rid}) < 3
    /\ addReservation(u, "r1", [user |-> u, dateTime |-> T22, status |-> Absent]).msg
         = QuotaMessage

\* C4: addReservation by an admin is never rejected by the quota check: when
\* the request names an owner and an existing restaurant and a dateTime within
\* its working hours, the reservation is created for that owner, whatever the
\* number of reservations the owner holds.
C4_AdminExempt ==
  \A a \in Users, rid \in AllRestaurantIds, b \in AddBodies :
    IsAdmin(a) =>
      LET res == addReservation(a, rid, b)
      IN /\ res.msg # QuotaMessage
         /\ (/\ b.user # Absent /\ rid \in DOMAIN restaurants
             /\ b.dateTime # AbsentDateTime
             /\ isWithinWorkingHours(b.dateTime, restaurants[rid].openTime,
                                     restaurants[rid].closeTime, DefaultTimezone))
            => /\ res.code = 201
               /\ Cardinality(res.reservations) = Cardinality(reservations) + 1
               /\ \A new \in res.reservations \ reservations :
                    new.user = b.user /\ new.restaurant = rid

\* an owner holding more than 3 reservations, which only an admin's request
\* can bring about, and the admin can still add one
C4_Witness ==
  \E u \in Owners :
    /\ Cardinality(OwnedBy(u)) > 3
    /\ addReservation("admin1", "r1", [user |-> u, dateTime |-> T22, status |-> Absent]).code
         = 201

\* C5: addReservation by a non-admin that names an owner other than the actor
\* is rejected with 401 and creates nothing; a reservation a non-admin's
\* request creates is owned by that actor.
C5_OwnOwnerOnly ==
  \A a \in NonAdmins, rid \in AllRestaurantIds, b \in AddBodies :
    LET res == addReservation(a, rid, b)
    IN /\ (b.user # Absent /\ b.user # a) =>
            (res.code = 401 /\ res.reservations = reservations)
       /\ res.code = 201 =>
            /\ Cardinality(res.reservations \ reservations) = 1
            /\ \A new \in res.reservations \ reservations : new.user = a

\* u1 holds a reservation, can add one for itself and is refused one for u2
C5_Witness ==
  /\ \E r \in reservations : r.user = "u1"
  /\ addReservation("u1", "r1", [user |-> "u1", dateTime |-> T22, status |-> Absent]).code = 201
  /\ addReservation("u1", "r1", [user |-> "u2", dateTime |-> T22, status |-> Absent]).code = 401

StatusValues == {"booked", "completed", "cancelled"}
TerminalStatuses == {"completed", "cancelled"}

Authorized(a, r) == a = r.user \/ IsAdmin(a)

C7_StatusEnum ==
  /\ \A r \in reservations : r.status \in StatusValues
  /\ \A a \in Users, id \in 1..nextId, b \in UpdateBodies :
       (b.status # Absent /\ b.status \notin StatusValues) =>
         LET res == updateReservation(a, id, b)
         IN res.code \in {400, 401, 404, 500} /\ res.reservations = reservations

\* a cancelled reservation whose owner is refused the status "pending" by the
\* handler and the empty status by the schema
C7_Witness ==
  \E r \in reservations :
    /\ r.status = "cancelled"
    /\ updateReservation(r.user, r.id, StatusOnly("pending")).msg = "Invalid status value"
    /\ updateReservation(r.user, r.id, StatusOnly("")).code = 500

\* order of times of day <<h, m, s>>
HMSLeq(x, y) ==
  \/ x[1] < y[1]
  \/ x[1] = y[1] /\ x[2] < y[2]
  \/ x[1] = y[1] /\ x[2] = y[2] /\ x[3] <= y[3]

HMSLt(x, y) == HMSLeq(x, y) /\ x # y

LastSecond == <<23, 59, 59>>

\* the time of day one second later (not for 23:59:59)
NextSecond(x) ==
  IF x[3] < 59 THEN <<x[1], x[2], x[3] + 1>>
  ELSE IF x[2] < 59 THEN <<x[1], x[2] + 1, 0>>
  ELSE <<x[1] + 1, 0, 0>>

\* the time of day a window endpoint "HH:MM[:SS]" names
EndpointHMS(hhmm) ==
  <<hhmm.parts[1].val, hhmm.parts[2].val,
    IF Len(hhmm.parts) = 3 THEN hhmm.parts[3].val ELSE 0>>

\* the Bangkok (UTC+7) wall-clock time of a text whose designator, or else
\* the server's zone, is a whole number of hours from UTC
LocalHMS(text) ==
  LET offHours == IF text.off = NoOffset
                  THEN (IF serverZone = "Asia/Bangkok" THEN 7 ELSE 0)
                  ELSE text.off \div 60
  IN <<(text.h + 7 - offHours) % 24, text.m, text.s>>

\* the working-hours decision for a text at a restaurant
HoursOK(text, rid) ==
  isWithinWorkingHours(text, restaurants[rid].openTime, restaurants[rid].closeTime,
                       DefaultTimezone)

\* the window of a restaurant admits a time of day, endpoints included
WindowAdmits(rid, l) ==
  LET o == EndpointHMS(restaurants[rid].openTime)
      c == EndpointHMS(restaurants[rid].closeTime)
  IN IF HMSLeq(o, c) THEN HMSLeq(o, l) /\ HMSLeq(l, c)
     ELSE HMSLeq(o, l) \/ HMSLeq(l, c)

\* the windows the check is put to: the one the restaurant stores and the
\* ones with endpoints "HH:MM:SS"
HoursWindows ==
  {<<restaurants[HoursRestaurant].openTime, restaurants[HoursRestaurant].closeTime>>}
    \cup (PreciseTimeOfDayInputs \X PreciseTimeOfDayInputs)

\* C8: a reservation addReservation creates has status booked whatever
\* status the body carries, and is created only when the ownership check,
\* the working-hours check and the quota check have passed.
C8_CreatedBooked ==
  \A a \in Users, rid \in AllRestaurantIds, b \in AddBodies :
    LET res == addReservation(a, rid, b)
        created == res.reservations \ reservations
    IN IF res.code = 201
       THEN /\ reservations \subseteq res.reservations
            /\ Cardinality(created) = 1
            /\ \A new \in created : new.status = "booked"
            /\ IsAdmin(a) \/ b.user = a
            /\ rid \in DOMAIN restaurants
            /\ b.dateTime # AbsentDateTime
            /\ WindowAdmits(rid, LocalHMS(b.dateTime))
            /\ IsAdmin(a) \/ Cardinality(OwnedBy(b.user)) < 3
       ELSE res.reservations = reservations

\* reservations exist, all booked or completed later, and a request whose
\* body says completed creates a booked one
C8_Witness ==
  /\ \E r \in reservations : r.status = "booked" /\ r.id > 1
  /\ LET res == addReservation("u1", "r1",
                               [user |-> "u1", dateTime |-> T22, status |-> "completed"])
     IN res.code = 201 /\ \A new \in res.reservations \ reservations : new.status = "booked"

OvernightExample ==
  /\ restaurants[HoursRestaurant].openTime = HHMM(20, 0)
  /\ restaurants[HoursRestaurant].closeTime = HHMM(3, 0)

WellFormed(hhmm) ==
  /\ hhmm.type = "string"
  /\ Len(hhmm.parts) \in {2, 3}
  /\ \A i \in 1..Len(hhmm.parts) :
       /\ hhmm.parts[i].text = "digits"
       /\ hhmm.parts[i].val >= 0
       /\ hhmm.parts[i].val <= (IF i = 1 THEN 23 ELSE 59)

AllTimeOfDayInputs ==
  TimeOfDayInputs \cup PreciseTimeOfDayInputs \cup MalformedTimeOfDayInputs

\* C11: isWithinWorkingHours is false whenever openTime or closeTime is no
\* well-formed HH:MM or HH:MM:SS value (missing, not a string, not numeric,
\* an empty or non-integer part, a wrong number of parts, out of range).
C11_MalformedHoursRejected ==
  \A o \in AllTimeOfDayInputs, c \in AllTimeOfDayInputs, t \in HoursInputs :
    (~WellFormed(o) \/ ~WellFormed(c)) =>
      ~isWithinWorkingHours(t, o, c, DefaultTimezone)
\* a body that asks for a status and a new dateTime
StatusAndDate(status, text) ==
  [user |-> Absent, restaurant |-> Absent, dateTime |-> text, status |-> status]

\* the store with reservation r completed and moved to the instant of text
Rescheduled(r, status, text) ==
  (reservations \ {r})
    \cup {[r EXCEPT !.status = status, !.dateTime = Instant(text)]}

\* C12: when the owner, not an admin, asks updateReservation for status
\* completed together with a new dateTime that is within working hours, the
\* request is rejected exactly when now is before the new dateTime, wherever
\* the stored dateTime lies; an accepted request stores both.
C12_GateOnNewDateTime ==
  \A r \in reservations, t \in DateTimeInputs :
    (~IsAdmin(r.user) /\ HoursOK(t, r.restaurant)) =>
      LET res == updateReservation(r.user, r.id, StatusAndDate("completed", t))
      IN IF now < Instant(t)
         THEN res.code = 400 /\ res.msg = EarlyMessage /\ res.reservations = reservations
         ELSE res.code = 200 /\ res.reservations = Rescheduled(r, "completed", t)

\* the clock between the two instants: a reservation whose stored instant has
\* come is refused for the later new dateTime, and one whose stored instant
\* is still ahead is accepted for the earlier new dateTime
C12_Witness ==
  /\ now = Instant(T22)
  /\ \E r \in reservations :
       /\ ~IsAdmin(r.user) /\ r.dateTime = Instant(T22) /\ HoursOK(T02, r.restaurant)
       /\ updateReservation(r.user, r.id, StatusAndDate("completed", T02)).code = 400
  /\ \E r \in reservations :
       /\ ~IsAdmin(r.user) /\ r.dateTime = Instant(T02) /\ HoursOK(T22, r.restaurant)
       /\ updateReservation(r.user, r.id, StatusAndDate("completed", T22)).code = 200
OutsideMessage == "outside working hours"

C14_RejectedChangesNothing ==
  /\ \A a \in Users, rid \in AllRestaurantIds, b \in AddBodies :
       LET res == addReservation(a, rid, b)
       IN res.code # 201 => res.reservations = reservations
  /\ \A a \in Users, id \in 1..nextId :
       LET res == markCompleted(a, id)
       IN res.code # 200 => res.reservations = reservations
  /\ \A a \in Users, id \in 1..nextId, b \in UpdateBodies :
       LET res == updateReservation(a, id, b)
       IN /\ res.code # 200 => res.reservations = reservations
          /\ (res.code = 200 /\ b.status # Absent /\ b.dateTime # AbsentDateTime) =>
               \E r \in reservations :
                 r.id = id /\ res.reservations = Rescheduled(r, b.status, b.dateTime)

\* a booked reservation ahead of the clock: its owner's request for completed
\* and a new dateTime is refused by the time gate, a request with an empty
\* status and a new dateTime fails in the schema validation, and the same
\* request with status cancelled is accepted
C14_Witness ==
  \E r \in reservations :
    /\ ~IsAdmin(r.user) /\ r.status = "booked" /\ r.dateTime = Instant(T22)
    /\ now < Instant(T22) /\ HoursOK(T02, r.restaurant)
    /\ updateReservation(r.user, r.id, StatusAndDate("completed", T02)).code = 400
    /\ updateReservation(r.user, r.id, StatusAndDate("", T02)).code = 500
    /\ updateReservation(r.user, r.id, StatusAndDate("cancelled", T02)).code = 200

\* C15: updateReservation with status cancelled on a booked reservation, by
\* its owner or an admin, is accepted and stores cancelled, whether now is
\* before, at or after the scheduled instant.
C15_CancelAnyTime ==
  \A r \in reservations, a \in Users :
    (r.status = "booked" /\ Authorized(a, r)) =>
      LET res == updateReservation(a, r.id, StatusOnly("cancelled"))
      IN res.code = 200 /\ res.reservations = WithStatus(r, "cancelled")

\* a cancelled reservation next to a booked one whose instant is still ahead:
\* its owner, who is refused completed, may cancel
C15_Witness ==
  /\ \E c \in reservations : c.status = "cancelled"
  /\ \E r \in reservations :
       /\ r.status = "booked" /\ ~IsAdmin(r.user) /\ now < r.dateTime
       /\ updateReservation(r.user, r.id, StatusOnly("completed")).code = 400
       /\ updateReservation(r.user, r.id, StatusOnly("cancelled")).code = 200

\* C16: updateReservation, deleteReservation and markCompleted by an actor who
\* is neither the owner of the reservation nor an admin answer 401 and leave
\* the store as it was; an id that names no reservation answers 404.
C16_OthersUnauthorized ==
  /\ \A r \in reservations, a \in Users :
       ~Authorized(a, r) =>
         /\ \A b \in UpdateBodies :
              /\ updateReservation(a, r.id, b).code = 401
              /\ updateReservation(a, r.id, b).reservations = reservations
         /\ deleteReservation(a, r.id).code = 401
         /\ deleteReservation(a, r.id).reservations = reservations
         /\ markCompleted(a, r.id).code = 401
         /\ markCompleted(a, r.id).reservations = reservations
  /\ \A id \in 1..nextId, a \in Users :
       (~\E r \in reservations : r.id = id) =>
         /\ \A b \in UpdateBodies : updateReservation(a, id, b).code = 404
         /\ deleteReservation(a, id).code = 404
         /\ markCompleted(a, id).code = 404

\* a reservation whose instant has come, which another user can neither
\* complete nor delete, while its owner can
C16_Witness ==
  \E r \in reservations, a \in NonAdmins :
    /\ a # r.user /\ r.status = "booked" /\ now >= r.dateTime
    /\ markCompleted(a, r.id).code = 401
    /\ deleteReservation(a, r.id).code = 401
    /\ markCompleted(r.user, r.id).code = 200
    /\ markCompleted(a, nextId).code = 404

\* C17: getReservation returns a reservation only to its owner or an admin;
\* for any other actor it is an authorization failure and returns no data.
C17_ReadOwnerOrAdmin ==
  \A r \in reservations, a \in Users :
    LET res == getReservation(a, r.id)
    IN IF Authorized(a, r)
       THEN res.code = 200 /\ res.data = {r}
       ELSE res.code = 401 /\ res.data = {}

\* C18: getReservations by a non-admin returns exactly the actor's own
\* reservations, of the restaurant of the route when it names one, and by an
\* admin all reservations, or all of that restaurant; a non-admin's listing
\* never holds a reservation of another user.
C18_ListingScope ==
  \A a \in Users, rid \in ListScopes :
    LET res == getReservations(a, rid)
        scoped == {r \in reservations : rid = Absent \/ r.restaurant = rid}
    IN /\ res.code = 200
       /\ IsAdmin(a) => res.data = scoped
       /\ ~IsAdmin(a) =>
            /\ res.data = {r \in scoped : r.user = a}
            /\ \A r \in res.data : r.user = a

\* two users hold a reservation at the same restaurant: each lists only the
\* own one there, the admin both
C18_Witness ==
  \E r1 \in reservations, r2 \in reservations :
    /\ r1.user # r2.user /\ r1.restaurant = r2.restaurant
    /\ getReservations(r1.user, r1.restaurant).data = {r1}
    /\ getReservations(r2.user, Absent).data = {r2}
    /\ getReservations("admin1", r1.restaurant).data = {r1, r2}

\* the rating figures a restaurant should carry for its current reviews: the
\* count, and the mean of the stars rounded half up to hundredths (0 without
\* reviews)
ReviewsOf(restaurantId) == {v \in reviews : v.restaurant = restaurantId}

StarsTotal(S) ==
    1 * Cardinality({v \in S : v.stars = 1}) + 2 * Cardinality({v \in S : v.stars = 2})
  + 3 * Cardinality({v \in S : v.stars = 3}) + 4 * Cardinality({v \in S : v.stars = 4})
  + 5 * Cardinality({v \in S : v.stars = 5})

RoundedMean(S) ==
  LET n == Cardinality(S)
      total == StarsTotal(S)
  IN IF n = 0 THEN 0
     ELSE CHOOSE h \in 0..(5 * RatingScale) :
            /\ 2 * h * n <= 2 * RatingScale * total + n
            /\ 2 * RatingScale * total + n < 2 * (h + 1) * n

RatingIsExact(restaurantId) ==
  /\ restaurants[restaurantId].averageRating = RoundedMean(ReviewsOf(restaurantId))
  /\ restaurants[restaurantId].reviewCount = Cardinality(ReviewsOf(restaurantId))

StarsAre(restaurantId, counts) ==
  \A k \in 0..5 : Cardinality({v \in ReviewsOf(restaurantId) : v.stars = k}) = counts[k + 1]

\* no recomputation for the restaurant is in flight
NoRecomputationFor(restaurantId) == \A j \in ratingJobs : j.restaurant # restaurantId

C20_RecomputationGivesMean ==
  [][\A job \in ratingJobs :
       (job.pc = "update" /\ ratingJobs' = ratingJobs \ {job})
         => LET r == job.restaurant IN
            /\ restaurants'[r].averageRating = RoundedMean(ReviewsOf(r))
            /\ restaurants'[r].reviewCount = Cardinality(ReviewsOf(r))
            /\ StarsAre(r, <<0, 0, 0, 1, 1, 1>>)
                 => restaurants'[r].averageRating = 4 * RatingScale
                      /\ restaurants'[r].reviewCount = 3
            /\ StarsAre(r, <<0, 0, 0, 1, 0, 1>>)
                 => restaurants'[r].averageRating = 4 * RatingScale
                      /\ restaurants'[r].reviewCount = 2
            /\ ReviewsOf(r) = {}
                 => restaurants'[r].averageRating = 0 /\ restaurants'[r].reviewCount = 0]_vars

\* three reviews were made for r1, the one of 4 stars is gone, and the
\* recomputation after that has written 4.00 and 2
C20_Witness ==
  /\ nextReviewId = MaxRatingReviews + 1
  /\ ratingJobs = {}
  /\ StarsAre("r1", <<0, 0, 0, 1, 0, 1>>)
  /\ reviews = ReviewsOf("r1")
  /\ restaurants["r1"].averageRating = 4 * RatingScale
  /\ restaurants["r1"].reviewCount = 2

\* a step that applies a review create, update or delete: the reviews change
\* or a recomputation starts
ReviewMutation ==
  \/ reviews' # reviews
  \/ \E j \in ratingJobs' : j \notin ratingJobs /\ j.pc = "aggregate"

\* C21: if the review mutations stop then, once the pending recomputations
\* have run, the averageRating and reviewCount of every restaurant equal the
\* rounded mean and the count of its reviews and stay equal to them, whatever
\* the interleaving of mutations and recomputations before.
C21_EventuallyExact ==
  <>[][~ReviewMutation]_vars => <>[](\A r \in DOMAIN restaurants : RatingIsExact(r))

\* the state InitStale: r1 carries 5.00 and 1 for one review of 4 stars and
\* nothing is in flight
LeftStaleByRace ==
  /\ reviews = RacedReviews
  /\ ratingJobs = {}
  /\ nextReviewId = 2
  /\ restaurants = [SeedRestaurants EXCEPT !["r1"].averageRating = 5 * RatingScale,
                                           !["r1"].reviewCount = 1]

\* C22: an aggregate left stale by a race of recomputations is corrected by
\* the next review mutation for the restaurant: when the recomputation of
\* that mutation completes with no other in flight, the restaurant carries
\* the rounded mean and the count of its reviews.
C22_NextMutationHeals ==
  [][\A job \in ratingJobs :
       (job.pc = "update" /\ ratingJobs = {job} /\ ratingJobs' = {})
         => RatingIsExact(job.restaurant)']_vars

\* r1 was left with 5.00 and 1 for one review of 4 stars; a second review of
\* 5 stars has been made since and r1 carries 4.50 and 2
C22_Witness ==
  /\ ratingJobs = {}
  /\ ReviewsOf("r1") = RacedReviews \cup {[id |-> 2, user |-> "u1", restaurant |-> "r1",
                                           stars |-> 5]}
  /\ restaurants["r1"].averageRating = 450
  /\ restaurants["r1"].reviewCount = 2

Figures(doc) == <<doc.averageRating, doc.reviewCount>>

\* C23: only the recomputation started by a review mutation writes the
\* averageRating and reviewCount of a restaurant: a restaurant is created with
\* 0 and 0, and no other step changes the two figures of a restaurant,
\* whatever the body of createRestaurant or updateRestaurant carries.
C23_OnlyRecomputationWrites ==
  [][/\ \A r \in DOMAIN restaurants' \ DOMAIN restaurants :
          Figures(restaurants'[r]) = <<0, 0>>
     /\ \A r \in DOMAIN restaurants \cap DOMAIN restaurants' :
          Figures(restaurants'[r]) # Figures(restaurants[r])
            => \E job \in ratingJobs \ ratingJobs' :
                 job.restaurant = r /\ job.pc = "update"]_vars

\* the reviews a step adds, removes or replaces
ChangedReviews == (reviews \ reviews') \cup (reviews' \ reviews)

\* the recomputations a step starts
StartedRecomputations == {j \in ratingJobs' : j \notin ratingJobs /\ j.pc = "aggregate"}

\* a step that changes reviews changes those of one restaurant, starts a
\* recomputation for that restaurant and for no other, and writes no figures
MutationStartsRecomputation ==
  reviews' # reviews =>
    /\ \E j \in StartedRecomputations : \A v \in ChangedReviews : v.restaurant = j.restaurant
    /\ \A j \in StartedRecomputations : \E v \in ChangedReviews : v.restaurant = j.restaurant
    /\ \A r \in DOMAIN restaurants : Figures(restaurants'[r]) = Figures(restaurants[r])

\* a step that changes figures is the write of a recomputation and changes
\* those of its restaurant only
WriteIsLocal ==
  \A r \in DOMAIN restaurants :
    Figures(restaurants'[r]) # Figures(restaurants[r])
      => \E job \in ratingJobs \ ratingJobs' : job.restaurant = r /\ job.pc = "update"

\* C24: every successful createReview, updateReview and deleteReview is
\* followed by a recomputation of the aggregate of the restaurant of the
\* review (it starts one, which runs to its write) and causes no write to the
\* aggregate of another restaurant.
C24_MutationRecomputesOwnRestaurant ==
  /\ [][MutationStartsRecomputation /\ WriteIsLocal]_vars
  /\ \A i \in 1..MaxRaceJobs, r \in RestaurantIds :
       (\E j \in ratingJobs : j.id = i /\ j.restaurant = r)
         ~> (\A j \in ratingJobs : j.id # i)

\* r2 has a review of 4 stars, its recomputation has run, and r2 carries
\* 4.00 and 1 while r1 still carries 0 and 0
C24_Witness ==
  /\ ratingJobs = {}
  /\ \E v \in reviews : v.restaurant = "r2" /\ v.stars = 4
  /\ Figures(restaurants["r2"]) = <<4 * RatingScale, 1>>
  /\ Figures(restaurants["r1"]) = <<0, 0>>

\* the recomputations that fail in a step
FailingRecomputations ==
  {j \in ratingJobs : j.pc # "failed" /\ [j EXCEPT !.pc = "failed"] \in ratingJobs'}

\* the step is an accepted createReview, updateReview or deleteReview, answered
\* with its success code
AnsweredWithSuccess ==
  \/ \E a \in Users, b \in RaceReviewBodies :
       createReview(a, b).code = 201 /\ reviews' = createReview(a, b).reviews
  \/ \E a \in Users, id \in 1..nextReviewId, b \in RaceUpdateBodies :
       updateReview(a, id, b).code = 200 /\ reviews' = updateReview(a, id, b).reviews
  \/ \E a \in Users, id \in 1..nextReviewId :
       deleteReview(a, id).code = 204 /\ reviews' = deleteReview(a, id).reviews

\* C25: when the recomputation started by a review mutation fails, in its
\* aggregation or in its write, the reviews stay as the mutation left them,
\* the request that started it was answered with its success response, and
\* the restaurant keeps the averageRating and reviewCount it had.
C25_FailureLeavesMutation ==
  [][/\ StartedRecomputations # {} => AnsweredWithSuccess
     /\ (FailingRecomputations # {} \/ \E j \in ratingJobs \ ratingJobs' : j.pc = "failed")
          => reviews' = reviews /\ restaurants' = restaurants]_vars

\* the recomputation of a first review of 5 stars for r1 aggregated (5.00 / 1)
\* and failed in its write: the review is there and r1 still carries 0 and 0
C25_Witness ==
  /\ \E j \in ratingJobs : j.pc = "failed" /\ j.restaurant = "r1" /\ Len(j.stats) = 1
  /\ \E v \in reviews : v.restaurant = "r1" /\ v.stars = 5
  /\ Cardinality(reviews) = 1
  /\ Figures(restaurants["r1"]) = <<0, 0>>

\* the requests of createReview: every actor, with and without a restaurant
\* that exists, with and without stars in range
ReviewRequests ==
  (Users \cup {Anonymous})
    \X [restaurant : RestaurantIds \cup {Absent, MissingRestaurantId},
        stars : {Undefined, NaN, Num(4), Num(6)}]

\* the checks of createReview in the order of the claim, each with the
\* outcome it reports
ReviewChecks(actor, body) ==
  << [fails |-> actor = Anonymous, code |-> 401, msg |-> "Not authenticated"],
     [fails |-> body.restaurant = Absent, code |-> 400, msg |-> "restaurant is required"],
     [fails |-> body.stars = Undefined, code |-> 400, msg |-> "stars is required"],
     [fails |-> body.stars # Undefined /\ body.stars \notin {Num(n) : n \in 0..5},
      code |-> 400, msg |-> "stars must be a number between 0 and 5"],
     [fails |-> body.restaurant \notin DOMAIN restaurants,
      code |-> 404, msg |-> "Restaurant not found"],
     [fails |-> ~\E r \in reservations :
                  r.user = actor /\ r.restaurant = body.restaurant /\ r.status = "completed",
      code |-> 400, msg |-> "no completed reservation"] >>

\* C26: createReview reports the first check that fails, in the order not
\* authenticated, restaurant missing, stars missing, stars out of range,
\* restaurant not found, no completed reservation; the outcomes of the checks
\* differ from one another, and a request that passes all is accepted.
C26_FirstFailingCheck ==
  \A q \in ReviewRequests :
    LET checks == ReviewChecks(q[1], q[2])
        failing == {i \in 1..Len(checks) : checks[i].fails}
        res == createReview(q[1], q[2])
    IN /\ \A i \in failing :
            (\A j \in failing : i <= j)
              => res.code = checks[i].code /\ res.msg = checks[i].msg /\ res.reviews = reviews
       /\ failing = {} => res.code = 201
       /\ \A i \in 1..Len(checks), j \in 1..Len(checks) :
            i # j => <<checks[i].code, checks[i].msg>> # <<checks[j].code, checks[j].msg>>

\* u1 has a completed reservation at one restaurant and has reviewed it; an
\* anonymous request without restaurant and stars gets 401, u1's request for
\* a missing restaurant with 6 stars gets the range error, and u1's request
\* for the other restaurant is refused for want of a completed reservation
C26_Witness ==
  \E v \in reviews :
    /\ createReview(Anonymous, [restaurant |-> Absent, stars |-> Undefined]).code = 401
    /\ createReview(v.user, [restaurant |-> MissingRestaurantId, stars |-> Num(6)]).msg
         = "stars must be a number between 0 and 5"
    /\ createReview(v.user, [restaurant |-> MissingRestaurantId, stars |-> Num(4)]).code = 404
    /\ \E r \in RestaurantIds :
         createReview(v.user, [restaurant |-> r, stars |-> Num(4)]).msg
           = "no completed reservation"
    /\ createReview(v.user, [restaurant |-> v.restaurant, stars |-> Num(4)]).code = 201

\* stars values outside [0, 5]
OutOfRangeStars == {Num(0 - 1), Num(6), Num(7)}

\* C27: in every reachable state the stars of every stored review is a number
\* between 0 and 5 inclusive; createReview and updateReview reject a stars
\* value outside that range and leave the reviews unchanged.
C27_StarsInRange ==
  /\ \A v \in reviews : v.stars \in 0..5
  /\ \A a \in Users, x \in OutOfRangeStars :
       /\ \A r \in RestaurantIds :
            LET res == createReview(a, [restaurant |-> r, stars |-> x])
            IN res.code = 400 /\ res.reviews = reviews
       /\ \A v \in reviews :
            LET res == updateReview(a, v.id, [stars |-> x])
            IN res.code \in {400, 403} /\ res.reviews = reviews
               /\ (res.code = 403 <=> NotReviewOwnerNorAdmin(a, v))

\* a review of 5 stars whose author may review again: 6 stars are refused in
\* an update of the review and in a new review, 4 stars are accepted in both
C27_Witness ==
  \E v \in reviews :
    /\ v.stars = 5
    /\ updateReview(v.user, v.id, [stars |-> Num(6)]).code = 400
    /\ createReview(v.user, [restaurant |-> v.restaurant, stars |-> Num(6)]).code = 400
    /\ updateReview(v.user, v.id, [stars |-> Num(4)]).code = 200
    /\ createReview(v.user, [restaurant |-> v.restaurant, stars |-> Num(4)]).code = 201

\* the reviews with the stars of review v replaced
WithStars(v, stars) == (reviews \ {v}) \cup {[v EXCEPT !.stars = stars]}

\* what updateReview and deleteReview answer to each actor for each review
ReviewAuthorization ==
  \A v \in reviews, a \in Users :
    LET del == deleteReview(a, v.id) IN
    IF a # v.user /\ ~IsAdmin(a)
    THEN /\ del.code = 403 /\ del.reviews = reviews
         /\ \A b \in RatingUpdateBodies :
              LET upd == updateReview(a, v.id, b)
              IN upd.code = 403 /\ upd.reviews = reviews
    ELSE /\ del.code = 204 /\ del.reviews = reviews \ {v}
         /\ \A x \in RatingStars :
              LET upd == updateReview(a, v.id, [stars |-> x])
              IN upd.code = 200 /\ upd.reviews = WithStars(v, x.val)

\* a step of a refused updateReview or deleteReview changes nothing
RefusedChangesNothing ==
  \A a \in Users, id \in 1..nextReviewId :
    /\ (deleteReview(a, id).code = 403 /\ DeleteReview(a, id)) => UNCHANGED vars
    /\ \A b \in RatingUpdateBodies :
         (updateReview(a, id, b).code = 403 /\ UpdateReview(a, id, b)) => UNCHANGED vars

\* C28: updateReview and deleteReview by an actor who is neither the author
\* of the review nor an admin are refused with an authorization failure and
\* leave the reviews, the recomputations and the restaurants as they were; by
\* the author or an admin they are applied.
C28_ReviewOwnerOrAdmin == []ReviewAuthorization /\ [][RefusedChangesNothing]_vars

\* u1's review of r1, with 5.00 and 1 on r1: u2 is refused both requests, u1
\* and the admin are not
C28_Witness ==
  \E v \in reviews :
    /\ v.user = "u1" /\ v.restaurant = "r1" /\ ratingJobs = {}
    /\ Figures(restaurants["r1"]) = <<5 * RatingScale, 1>>
    /\ updateReview("u2", v.id, [stars |-> Num(3)]).code = 403
    /\ deleteReview("u2", v.id).code = 403
    /\ updateReview("u1", v.id, [stars |-> Num(3)]).code = 200
    /\ deleteReview("admin1", v.id).code = 204

----------------------------------------------------------------------------
(* SpecNormalize: the dateTime strings character by character.  A string is
   the sequence of its characters; the dates are those of January 1970, day
   d of the model being 1970-01-(d+1). *)

DigitText == <<"0", "1", "2", "3", "4", "5", "6", "7", "8", "9">>
DigitChars == {DigitText[i] : i \in 1..10}
TwoDigits(n) == <<DigitText[(n \div 10) + 1], DigitText[(n % 10) + 1]>>
DigitValue(c) == (CHOOSE i \in 1..10 : DigitText[i] = c) - 1
TwoDigitValue(t) == 10 * DigitValue(t[1]) + DigitValue(t[2])

LastChars(t, n) == SubSeq(t, Len(t) - n + 1, Len(t))
ButLastChars(t, n) == SubSeq(t, 1, Len(t) - n)

\* \d{2}, \d{4} : t is digits only
AreDigits(t) == \A i \in 1..Len(t) : t[i] \in DigitChars

\* t is \d{2}:\d{2}
IsDDcDD(t) ==
  Len(t) = 5 /\ AreDigits(SubSeq(t, 1, 2)) /\ t[3] = ":" /\ AreDigits(SubSeq(t, 4, 5))

\* t is [+\-]\d{2}(:?\d{2})?
IsOffset(t) ==
  /\ Len(t) \in {3, 5, 6}
  /\ t[1] \in {"+", "-"}
  /\ IF Len(t) = 6 THEN IsDDcDD(SubSeq(t, 2, 6)) ELSE AreDigits(SubSeq(t, 2, Len(t)))

\* /[zZ]|[+\-]\d{2}(:?\d{2})?$/.test(t)
CarriesDesignator(t) ==
  \/ \E i \in 1..Len(t) : t[i] \in {"z", "Z"}
  \/ \E n \in {3, 5, 6} : Len(t) >= n /\ IsOffset(LastChars(t, n))

\* t ends with T\d{2}:\d{2}
EndsWithTHM(t) ==
  Len(t) >= 6 /\ LET e == LastChars(t, 6) IN e[1] = "T" /\ IsDDcDD(SubSeq(e, 2, 6))

\* t ends with T\d{2}:\d{2}:\d{2}
EndsWithTHMS(t) ==
  /\ Len(t) >= 9
  /\ LET e == LastChars(t, 9)
     IN e[7] = ":" /\ AreDigits(SubSeq(e, 8, 9)) /\ EndsWithTHM(SubSeq(e, 1, 6))

normalizeISOText_SecondsFormOnly(t) ==
  IF CarriesDesignator(t) THEN t
  ELSE IF Len(t) > 5 /\ IsDDcDD(LastChars(t, 5)) /\ EndsWithTHMS(ButLastChars(t, 5))
       THEN ButLastChars(t, 5) \o <<"+">> \o LastChars(t, 5)
  ELSE t

\* normalizeISO on the characters of the string: the test for a designator,
\* then the seconds form and the minutes-only form of a glued offset
normalizeISOText(t) ==
  IF CarriesDesignator(t) THEN t
  ELSE IF Len(t) > 5 /\ IsDDcDD(LastChars(t, 5)) /\ EndsWithTHMS(ButLastChars(t, 5))
       THEN ButLastChars(t, 5) \o <<"+">> \o LastChars(t, 5)
  ELSE IF Len(t) > 5 /\ IsDDcDD(LastChars(t, 5)) /\ EndsWithTHM(ButLastChars(t, 5))
       THEN ButLastChars(t, 5) \o <<"+">> \o LastChars(t, 5)
  ELSE t

DatePrefix == <<"1", "9", "7", "0", "-", "0", "1", "-">>
DateText(d) == DatePrefix \o TwoDigits(d + 1)

GarbageDateTime == [form |-> "garbage"]

\* the designator luxon accepts after the time: none, Z or an offset
IsDesignator(t) == t = <<>> \/ t = <<"Z">> \/ IsOffset(t)

\* its value in minutes
DesignatorMinutes(t) ==
  IF t = <<>> THEN NoOffset
  ELSE IF t = <<"Z">> THEN 0
  ELSE LET hh == TwoDigitValue(SubSeq(t, 2, 3))
           mm == IF Len(t) = 3 THEN 0 ELSE TwoDigitValue(LastChars(t, 2))
       IN (IF t[1] = "-" THEN 0 - 1 ELSE 1) * (hh * 60 + mm)

\* what DateTime.fromISO reads in <date>T<hh>:<mm>[:<ss>][<designator>],
\* colons written: the record of the text, GarbageDateTime for any other text
parseISOText(t) ==
  IF \/ Len(t) < 16
     \/ SubSeq(t, 1, 8) # DatePrefix
     \/ ~AreDigits(SubSeq(t, 9, 10))
     \/ t[11] # "T"
     \/ ~IsDDcDD(SubSeq(t, 12, 16))
  THEN GarbageDateTime
  ELSE LET secs == Len(t) >= 19 /\ t[17] = ":" /\ AreDigits(SubSeq(t, 18, 19))
           rest == SubSeq(t, IF secs THEN 20 ELSE 17, Len(t))
           day == TwoDigitValue(SubSeq(t, 9, 10))
           hh == TwoDigitValue(SubSeq(t, 12, 13))
           mm == TwoDigitValue(SubSeq(t, 15, 16))
           ss == IF secs THEN TwoDigitValue(SubSeq(t, 18, 19)) ELSE 0
       IN IF ~IsDesignator(rest) \/ day < 1 \/ day > 31 \/ hh > 23 \/ mm > 59 \/ ss > 59
          THEN GarbageDateTime
          ELSE ISO(day - 1, hh, mm, ss, DesignatorMinutes(rest))

\* the designators written: none, "Z", "+07:00", "-05:00", "+05:30", "+0700",
\* "+07", and the glued "07:00" and "05:30"
DesignatorShapes ==
  {[kind |-> "none", oh |-> 0, om |-> 0], [kind |-> "Z", oh |-> 0, om |-> 0],
   [kind |-> "+hh:mm", oh |-> 7, om |-> 0], [kind |-> "-hh:mm", oh |-> 5, om |-> 0],
   [kind |-> "+hh:mm", oh |-> 5, om |-> 30], [kind |-> "+hhmm", oh |-> 7, om |-> 0],
   [kind |-> "+hh", oh |-> 7, om |-> 0],
   [kind |-> "glued", oh |-> 7, om |-> 0], [kind |-> "glued", oh |-> 5, om |-> 30]}

\* the strings sent: day 2, the hour 09, 15 or 21, the minutes 00 or 30, with
\* no seconds or with :00 or :07, and each designator
TimestampShapes ==
  [d : {1}, h : {9, 15, 21}, m : {0, 30}, secs : BOOLEAN, s : {0, 7}, des : DesignatorShapes]

DesignatorText(des) ==
  IF des.kind = "none" THEN <<>>
  ELSE IF des.kind = "Z" THEN <<"Z">>
  ELSE IF des.kind = "+hh:mm" THEN <<"+">> \o TwoDigits(des.oh) \o <<":">> \o TwoDigits(des.om)
  ELSE IF des.kind = "-hh:mm" THEN <<"-">> \o TwoDigits(des.oh) \o <<":">> \o TwoDigits(des.om)
  ELSE IF des.kind = "+hhmm" THEN <<"+">> \o TwoDigits(des.oh) \o TwoDigits(des.om)
  ELSE IF des.kind = "+hh" THEN <<"+">> \o TwoDigits(des.oh)
  ELSE TwoDigits(des.oh) \o <<":">> \o TwoDigits(des.om)

\* the characters of the string
TimestampText(x) ==
  DateText(x.d) \o <<"T">> \o TwoDigits(x.h) \o <<":">> \o TwoDigits(x.m)
    \o (IF x.secs THEN <<":">> \o TwoDigits(x.s) ELSE <<>>) \o DesignatorText(x.des)

\* the record that stands for the string in a request body
TimestampRecord(x) ==
  LET off == IF x.des.kind = "none" THEN NoOffset
             ELSE IF x.des.kind = "-hh:mm" THEN 0 - (x.des.oh * 60 + x.des.om)
             ELSE x.des.oh * 60 + x.des.om
  IN [form |-> IF x.des.kind = "glued" THEN "glued" ELSE "iso",
      d |-> x.d, h |-> x.h, m |-> x.m, s |-> IF x.secs THEN x.s ELSE 0, off |-> off]

\* a restaurant open all day, so that the stored instant shows for each string
InitNormalize ==
  /\ restaurants = [r \in {HoursRestaurant} |->
                      [openTime |-> HHMM(0, 0), closeTime |-> HHMMSS(23, 59, 59),
                       timezone |-> Absent, averageRating |-> 0, reviewCount |-> 0]]
  /\ reservations = {}
  /\ reviews = {}
  /\ ratingJobs = {}
  /\ nextId = 1
  /\ nextReviewId = 1
  /\ now = 0
  /\ serverZone \in ServerZones
  /\ inFlight = {}
  /\ creation = {}
  /\ attended = {}

\* dateTime values that name no instant: text that is no date, "" and 0
UnresolvableDateTimes == {GarbageDateTime, EmptyDateTime, ZeroDateTime}

\* a body of updateReservation that carries a dateTime and, or not, a status
DateUpdate(dateTime, status) ==
  [user |-> Absent, restaurant |-> Absent, dateTime |-> dateTime, status |-> status]

NextNormalize ==
  \/ \E x \in TimestampShapes :
       /\ nextId <= MaxReservations
       /\ reservations = {}
       /\ AddReservation("u1", HoursRestaurant, HoursBody(TimestampRecord(x)))
  \/ \E t \in UnresolvableDateTimes :
       /\ nextId <= MaxReservations
       /\ AddReservation("u1", HoursRestaurant, HoursBody(t))
  \/ \E id \in 1..nextId, t \in UnresolvableDateTimes :
       UpdateReservation("u1", id, DateUpdate(t, Absent))
  \/ \E id \in 1..nextId : DeleteReservation("u1", id)

SpecNormalize == InitNormalize /\ [][NextNormalize]_vars

\* the instant a string resolves to once normalized
ResolvedInstant(t) == fromISO(parseISOText(normalizeISOText(t)), serverZone)

\* the string with '+' before its last five characters
PlusInserted(t) == ButLastChars(t, 5) \o <<"+">> \o LastChars(t, 5)

\* C29: a string that carries Z or a numeric offset is returned unchanged by
\* normalizeISO and resolves to the instant it names; a string with a glued
\* offset, after the seconds or after the minutes, resolves to the valid
\* instant of the same string with '+' before the trailing HH:MM; and the
\* record that stands for a string in a request is normalized to what luxon
\* reads in the normalized string.
C29_NormalizeKeepsInstant ==
  \A x \in TimestampShapes :
    LET t == TimestampText(x) IN
    /\ x.des.kind \notin {"none", "glued"} =>
         /\ normalizeISOText(t) = t
         /\ ResolvedInstant(t) = fromISO(parseISOText(t), serverZone)
         /\ ResolvedInstant(t) # InvalidDate
    /\ x.des.kind = "glued" =>
         /\ parseISOText(t) = GarbageDateTime
         /\ ResolvedInstant(t) = ResolvedInstant(PlusInserted(t))
         /\ ResolvedInstant(t) = fromISO(parseISOText(PlusInserted(t)), serverZone)
         /\ ResolvedInstant(t) # InvalidDate
    /\ parseISOText(normalizeISOText(t)) = normalizeISO(TimestampRecord(x))
    /\ ResolvedInstant(t) = parseIncomingToJSDate(TimestampRecord(x), DefaultTimezone)

\* "1970-01-02T09:3005:30" was sent and the reservation is stored at 04:00
\* UTC of that day, the instant of "1970-01-02T09:30+05:30"
C29_Witness ==
  LET x == [d |-> 1, h |-> 9, m |-> 30, secs |-> FALSE, s |-> 0,
            des |-> [kind |-> "glued", oh |-> 5, om |-> 30]]
  IN \E r \in reservations :
       /\ r.dateTime = SecondsPerDay + 4 * SecondsPerHour
       /\ r.dateTime = ResolvedInstant(TimestampText(x))
       /\ normalizeISOText(TimestampText(x)) = PlusInserted(TimestampText(x))

\* the text with the offset of zone tz written after it
WithZoneWritten(text, tz) ==
  ISO(text.d, text.h, text.m, text.s, ZoneOffset(tz) \div SecondsPerMinute)

\* C30: a dateTime string without Z and without offset is read as wall-clock
\* time in the restaurant's zone, whatever the zone of the server: the
\* working-hours decision and the instant stored are those of the same
\* string with the restaurant's offset written out.
C30_ServerZoneIrrelevant ==
  \A t \in HoursInputs :
    t.off = NoOffset =>
      LET restaurant == restaurants[HoursRestaurant]
          tz == TimezoneOf(restaurant)
          written == WithZoneWritten(t, tz)
      IN /\ isWithinWorkingHours(t, restaurant.openTime, restaurant.closeTime, tz)
              = isWithinWorkingHours(written, restaurant.openTime, restaurant.closeTime, tz)
         /\ parseIncomingToJSDate(t, tz) = parseIncomingToJSDate(written, tz)

\* C31: addReservation and updateReservation given a dateTime that names no
\* instant (text that is no date, "" or a value that is no string) answer 400,
\* or 401 to an actor who may not act, and create or change no reservation;
\* the working-hours check never admits such a value.
C31_UnresolvableRejected ==
  \A t \in UnresolvableDateTimes :
    LET restaurant == restaurants[HoursRestaurant] IN
    /\ ~isWithinWorkingHours(t, restaurant.openTime, restaurant.closeTime,
                             TimezoneOf(restaurant))
    /\ \A a \in Users :
         LET res == addReservation(a, HoursRestaurant, HoursBody(t))
         IN res.code \in {400, 401} /\ res.reservations = reservations
    /\ \A a \in Users, r \in reservations, status \in {Absent, "cancelled"} :
         LET res == updateReservation(a, r.id, DateUpdate(t, status))
         IN res.code \in {400, 401} /\ res.reservations = reservations

----------------------------------------------------------------------------
(* SpecConcurrent: requests of the non-admin users that overlap.  A handler
   runs without interruption between two awaits; addReservation is cut after
   its last read, Reservation.find({ user }), and before Reservation.create. *)

\* a number no request in flight carries
FreshRequest ==
  CHOOSE i \in 1..(Cardinality(inFlight) + 1) : \A q \in inFlight : q.req # i

\* addReservation up to the quota check: a request that passes every check
\* against the reservations of this moment goes on to Reservation.create
\* (one that fails a check is answered at once and changes nothing)
AddReservationReads(actor, restaurantId, body) ==
  LET res == addReservation(actor, restaurantId, body) IN
  /\ res.code = 201
  /\ inFlight' = inFlight \cup
       {[req |-> FreshRequest, doc |-> CHOOSE d \in res.reservations \ reservations : TRUE]}
  /\ UNCHANGED <<restaurants, reservations, reviews, ratingJobs, nextId, nextReviewId, now,
                 serverZone, creation, attended>>

\* await Reservation.create(req.body) of a request in flight
AddReservationCreates(q) ==
  /\ q \in inFlight
  /\ reservations' = reservations \cup {[q.doc EXCEPT !.id = nextId]}
  /\ nextId' = nextId + 1
  /\ inFlight' = inFlight \ {q}
  /\ UNCHANGED <<restaurants, reviews, ratingJobs, nextReviewId, now, serverZone,
                 creation, attended>>

NextConcurrent ==
  \/ \E a \in NonAdmins :
       /\ nextId + Cardinality(inFlight) <= MaxConcurrentReservations
       /\ Cardinality(inFlight) < MaxInFlight
       /\ AddReservationReads(a, "r1",
                              [user |-> a, dateTime |-> T22, status |-> Absent])
  \/ \E q \in inFlight : AddReservationCreates(q)
  \/ \E a \in NonAdmins, id \in 1..nextId : UpdateReservation(a, id, StatusOnly("cancelled"))
  \/ \E a \in NonAdmins, id \in 1..nextId : DeleteReservation(a, id)

SpecConcurrent == Init /\ [][NextConcurrent]_vars

\* C32: whatever the interleaving of the addReservation, updateReservation and
\* deleteReservation requests of non-admin actors, no user owns more than 3
\* reservations.
C32_AtMostThree == \A u \in Users : Cardinality(OwnedBy(u)) <= 3

----------------------------------------------------------------------------
(* SpecAttendance: the non-admin users book, complete, change and review,
   and the history of the reservations is kept: who created each one and
   where, and which completions passed the time gate. *)

\* addReservation, and the record of the creation
AddReservationRecorded(actor, restaurantId, body) ==
  LET res == addReservation(actor, restaurantId, body) IN
  /\ reservations' = res.reservations
  /\ nextId' = IF res.code = 201 THEN nextId + 1 ELSE nextId
  /\ creation' = IF res.code = 201
                 THEN creation \cup {[id |-> nextId, user |-> actor,
                                      restaurant |-> restaurantId]}
                 ELSE creation
  /\ UNCHANGED <<restaurants, reviews, ratingJobs, nextReviewId, now, serverZone,
                 inFlight, attended>>

\* the attendance an answer of updateReservation or markCompleted verifies: the
\* reservation is now completed and its instant is not after now
Verified(res, id, setsCompleted) ==
  LET after == findById(res.reservations, id)
  IN IF res.code = 200 /\ setsCompleted /\ after.status = "completed" /\ now >= after.dateTime
     THEN {<<c.user, c.restaurant>> : c \in {x \in creation : x.id = id}}
     ELSE {}

\* updateReservation, and the record of a verified completion
UpdateReservationRecorded(actor, id, body) ==
  LET res == updateReservation(actor, id, body) IN
  /\ reservations' = res.reservations
  /\ attended' = attended \cup Verified(res, id, body.status = "completed")
  /\ UNCHANGED <<restaurants, reviews, ratingJobs, nextId, nextReviewId, now, serverZone,
                 inFlight, creation>>

\* markCompleted, and the record of a verified completion
MarkCompletedRecorded(actor, id) ==
  LET res == markCompleted(actor, id) IN
  /\ reservations' = res.reservations
  /\ attended' = attended \cup Verified(res, id, TRUE)
  /\ UNCHANGED <<restaurants, reviews, ratingJobs, nextId, nextReviewId, now, serverZone,
                 inFlight, creation>>

\* the bodies of updateReservation sent: a status, another restaurant,
\* another owner, or several of these
AttendanceUpdateBodies ==
  [user : {Absent, "u1"}, restaurant : {Absent, "r2"}, dateTime : {AbsentDateTime},
   status : {Absent, "completed", "cancelled"}]

NextAttendance ==
  \/ \E a \in NonAdmins, r \in RestaurantIds :
       /\ nextId <= MaxGateReservations
       /\ AddReservationRecorded(a, r, [user |-> a, dateTime |-> T22, status |-> Absent])
  \/ \E a \in NonAdmins, id \in 1..nextId, b \in AttendanceUpdateBodies :
       UpdateReservationRecorded(a, id, b)
  \/ \E a \in NonAdmins, id \in 1..nextId : MarkCompletedRecorded(a, id)
  \/ \E a \in NonAdmins, id \in 1..nextId : DeleteReservation(a, id)
  \/ \E a \in NonAdmins, r \in RestaurantIds :
       /\ nextReviewId <= MaxReviews
       /\ CreateReview(a, [restaurant |-> r, stars |-> Num(4)])
  \/ \E job \in ratingJobs : UpdateRestaurantRatingAggregate(job)
  \/ \E job \in ratingJobs : UpdateRestaurantRatingWrite(job)
  \/ Tick(Clock)

SpecAttendance == Init /\ [][NextAttendance]_vars

\* C33: when only non-admin actors act, a review by user u of restaurant R
\* exists only if a reservation that u created at R was set to completed at a
\* moment when now was not earlier than its instant.
C33_ReviewsNeedAttendance ==
  \A v \in reviews : <<v.user, v.restaurant>> \in attended

\* the reservations of a user that are neither completed nor cancelled
ActiveOf(u) == {r \in OwnedBy(u) : r.status \notin {"completed", "cancelled"}}

\* C34: completed and cancelled reservations do not count for the quota: a
\* non-admin with fewer than 3 active reservations, and so one whose
\* reservations are all completed or cancelled, is not refused by the quota
\* check of addReservation.
C34_QuotaCountsActive ==
  \A u \in NonAdmins, rid \in RestaurantIds :
    Cardinality(ActiveOf(u)) < 3 =>
      addReservation(u, rid, [user |-> u, dateTime |-> T22, status |-> Absent]).msg
        # QuotaMessage

\* C35: after any sequence of accepted updateReservation requests of non-admin
\* actors, whatever their bodies carry, the owner and the restaurant of a
\* reservation are those it was created with.
C35_OwnerAndRestaurantKept ==
  \A r \in reservations, c \in creation :
    c.id = r.id => (r.user = c.user /\ r.restaurant = c.restaurant)

\* C36: markCompleted and updateReservation with a body that holds only
\* status 'completed' agree for every reservation (and every id that names
\* none), actor and value of now: the same status code, the same message when
\* refused, and when accepted the same store, in which the reservation has
\* status completed and nothing else has changed.
C36_CompleteEitherWay ==
  \A a \in Users, id \in 1..nextId :
    LET upd == updateReservation(a, id, StatusOnly("completed"))
        mrk == markCompleted(a, id)
    IN /\ upd.code = mrk.code
       /\ upd.reservations = mrk.reservations
       /\ upd.code # 200 => (upd.msg = mrk.msg /\ upd.reservations = reservations)
       /\ upd.code = 200 =>
            \E r \in reservations : r.id = id /\ upd.reservations = WithStatus(r, "completed")

\* the clock is at the instant of one booked reservation and before that of
\* another: the owner is accepted for the first and refused for the second
\* either way, the other user is refused and the admin accepted for both
C36_Witness ==
  \E r1 \in reservations, r2 \in reservations :
    /\ r1.status = "booked" /\ r2.status = "booked"
    /\ r1.dateTime = now /\ now < r2.dateTime
    /\ markCompleted(r1.user, r1.id).code = 200
    /\ updateReservation(r1.user, r1.id, StatusOnly("completed")).code = 200
    /\ markCompleted(r2.user, r2.id).code = 400
    /\ updateReservation(r2.user, r2.id, StatusOnly("completed")).code = 400
    /\ markCompleted("u2", r2.id).code = 401
    /\ updateReservation("u2", r2.id, StatusOnly("completed")).code = 401
    /\ markCompleted("admin1", r2.id).code = 200
    /\ updateReservation("admin1", r2.id, StatusOnly("completed")).code = 200

\* C37: addReservation checks the working hours before the quota: a non-admin
\* request whose dateTime is outside the window is answered with the
\* working-hours message, also when the owner holds 3 reservations or more;
\* a request without user, and one of the owner without dateTime, is answered
\* with the message of the missing field, before either check.
C37_HoursBeforeQuota ==
  \A a \in NonAdmins, rid \in RestaurantIds, b \in AddBodies :
    LET res == addReservation(a, rid, b)
        restaurant == restaurants[rid]
    IN /\ b.user = Absent =>
            (res.code = 400 /\ res.msg = "user is required")
       /\ (b.user = a /\ b.dateTime = AbsentDateTime) =>
            (res.code = 400 /\ res.msg = "dateTime is required")
       /\ (/\ b.user = a /\ b.dateTime # AbsentDateTime
           /\ ~isWithinWorkingHours(b.dateTime, restaurant.openTime, restaurant.closeTime,
                                    TimezoneOf(restaurant)))
            => (res.code = 400 /\ res.msg = OutsideMessage)
       /\ (b.user = Absent \/ b.dateTime = AbsentDateTime) =>
            (res.msg \notin {OutsideMessage, QuotaMessage} /\ res.reservations = reservations)

\* u1 holds 3 reservations: 02:00 at r1 is answered with the working-hours
\* message, 22:00 at r1 with the quota message, no dateTime with its own
C37_Witness ==
  /\ Cardinality(OwnedBy("u1")) = 3
  /\ addReservation("u1", "r1", [user |-> "u1", dateTime |-> T02, status |-> Absent]).msg
       = OutsideMessage
  /\ addReservation("u1", "r1", [user |-> "u1", dateTime |-> T22, status |-> Absent]).msg
       = QuotaMessage
  /\ addReservation("u1", "r1",
                    [user |-> "u1", dateTime |-> AbsentDateTime, status |-> Absent]).msg
       = "dateTime is required"

\* C38: an accepted deleteReservation removes the reservation with the id of
\* the request and no other, of the same user or of another; the number of
\* reservations of its owner, which the quota check counts, is lower by one.
\* A refused one removes nothing.
C38_DeleteRemovesOne ==
  \A a \in Users, id \in 1..nextId :
    LET res == deleteReservation(a, id) IN
    IF res.code = 200
    THEN \E r \in reservations :
           /\ r.id = id
           /\ res.reservations = reservations \ {r}
           /\ Cardinality({x \in res.reservations : x.user = r.user})
                = Cardinality(findByUser(r.user)) - 1
    ELSE res.reservations = reservations

\* u1 holds two reservations and u2 one: u1's delete of the first leaves the
\* other two
C38_Witness ==
  \E r \in reservations, o \in reservations, p \in reservations :
    /\ r.user = "u1" /\ o.user = "u1" /\ p.user = "u2" /\ r # o
    /\ deleteReservation("u1", r.id).code = 200
    /\ deleteReservation("u1", r.id).reservations = {o, p}

\* every review of the next state that has the id of a review of this state
\* has its author and its restaurant
AuthorAndRestaurantKept ==
  \A v \in reviews, w \in reviews' :
    w.id = v.id => (w.user = v.user /\ w.restaurant = v.restaurant)

\* C39: no step changes the author or the restaurant of a review: updateReview
\* writes stars (and message) only, whatever other fields the body carries, so
\* that after any sequence of updates a review is in the review set of the
\* restaurant it was created for.
C39_ReviewStaysPut == [][AuthorAndRestaurantKept]_vars

\* u1's review of r1, created with 3 or 5 stars, now has 4: the update whose
\* body names restaurant r2 and user u2 was applied, and the review is still
\* u1's review of r1
C39_Witness ==
  \E v \in reviews :
    /\ v.user = "u1" /\ v.restaurant = "r1" /\ v.stars = 4
    /\ \A b \in RaceReviewBodies : b.restaurant = "r1" => b.stars # Num(4)
    /\ \E b \in RaceUpdateBodies :
         /\ b.restaurant = "r2" /\ b.user = "u2"
         /\ updateReview("u1", v.id, b).code = 200
         /\ updateReview("u1", v.id, b).reviews = reviews

====
